---- MODULE Spec2Model ----
(***************************************************************************)
(* Verification model of the geonames_enrichment package of 1001-books:    *)
(*   - GndClient._normalize_input            (SpecNorm)                    *)
(*   - HttpClient.fetch_page + rate_limited  (SpecHttp)                    *)
(*   - GndClient.get_gnd_areacode            (SpecGnd)                     *)
(*   - enrich_with_geolocation               (SpecEnrich)                  *)
(* Text values are sequences of one-character strings; the absent value    *)
(* pd.NA is the reserved one-element sequence NA.                          *)
(***************************************************************************)
EXTENDS Integers, Sequences, FiniteSets, TLC

VARIABLES
    \* ---- _normalize_input applied twice
    n_pc, n_in, n_once, n_twice,
    \* ---- HttpClient: one client, a sequence of fetch_page calls
    h_pc,       \* position inside rate_limited.wrapper / fetch_page
    h_now,      \* the wall clock, time.time()
    h_limit,    \* self._limit: [n |-> amount, w |-> window length]
    h_events,   \* self._store.events["global"]: acquisition times, newest first
    h_reset,    \* reset_time read from get_window_stats
    h_script,   \* what the server will answer to the attempts of this call
    h_retry,    \* urllib3 Retry counters left for this call
    h_sent,     \* times of the HTTP requests put on the wire during the
                \* last window length (older ones share no window with a
                \* later request)
    h_calls,    \* number of fetch_page calls started
    h_call,     \* record of the current / last call
    \* ---- GndClient: one get_gnd_areacode / _validate_gnd_result call
    g_pc,
    g_row,      \* the input row
    g_resp,     \* what the search API answers for the 1st, 2nd title
    g_val,      \* result of _validate_gnd_result on one item of g_resp
    g_res,      \* result of get_gnd_areacode
    \* ---- enrich_with_geolocation: one run over a small table
    e_pc,       \* the stage the run is in, "done" or "failed"
    e_i,        \* position of the running apply / loop in e_rows
    e_df,       \* the table df: record number -> column -> value
    e_rows,     \* remaining_rows.index of the running stage
    e_results,  \* results collected so far by the running apply / loop
    e_error,    \* the exception that ended the run, or "none"
    e_log,      \* the lookups sent out, each with the record's area code
                \* and P495 value in df at that moment
    e_geodict,  \* what gnd_to_geonames() returns
    \* ---- WikidataClient.get_wikidata_property: one call
    w_pc,
    w_q,        \* row[q_col]
    w_item,     \* what _fetch_wikidata_item gives for it
    w_out,      \* what the call returned
    \* ---- GeoNamesClient.get_geonames_data: one call
    c_pc,
    c_resp,     \* what fetch_page returns for the request
    c_fetches,  \* number of fetch_page calls made by the call
    c_out,      \* what the call returned or raised
    m_pc,        \* main(): position in the client set-up and the scoped block
    m_session,   \* per client: its HttpClient session ("none", "open", "closed")
    m_path,      \* the exit path taken by the scoped block
    m_requests,  \* per resolver: external requests issued so far
    m_checks,    \* per resolver: rate-limit checks (limiter.hit) made so far
    p_now,       \* two callers of one HttpClient: the clock
    p_limit,     \* the client's rate limit
    p_events,    \* the limiter's window, shared by the callers, newest first
    p_sent,      \* requests of the last window length, of both callers
    p_caller     \* per caller: its position in the wrapper and its locals

normVars == <<n_pc, n_in, n_once, n_twice>>

httpVars == <<h_pc, h_now, h_limit, h_events, h_reset, h_script, h_retry,
              h_sent, h_calls, h_call>>

gndVars == <<g_pc, g_row, g_resp, g_val, g_res>>

enrichVars == <<e_pc, e_i, e_df, e_rows, e_results, e_error, e_log,
                e_geodict>>

wikiVars == <<w_pc, w_q, w_item, w_out>>

geoVars == <<c_pc, c_resp, c_fetches, c_out>>

mainVars == <<m_pc, m_session, m_path, m_requests, m_checks>>

sharedVars == <<p_now, p_limit, p_events, p_sent, p_caller>>

vars == <<normVars, httpVars, gndVars, enrichVars, wikiVars, geoVars,
         mainVars, sharedVars>>

\* pd.NA
NA == <<"<NA>">>

IsNA(x) == x = NA

NotNA(x) == x # NA

(***************************************************************************)
(* Characters.  "A", "B" are the upper-case forms of "a", "b"; "a_acute" is *)
(* the letter U+00E1, whose canonical decomposition is "a" followed        *)
(* by the combining mark "acute" (category Mn).                            *)
(***************************************************************************)
WordChars == {"a", "b", "A", "B", "a_acute", "Q", "X", "Z", "1", "2"}

SpaceChars == {" "}

\* str.lower() on one character
LowerChar(c) == IF c = "A" THEN "a" ELSE IF c = "B" THEN "b" ELSE c

\* unicodedata.normalize("NFD", .) on one character
NfdChar(c) == IF c = "a_acute" THEN <<"a", "acute">> ELSE <<c>>

\* unicodedata.category(letter) != "Mn"
NotMn(c) == c # "acute"

RECURSIVE FlatMapNfd(_)
FlatMapNfd(s) ==
    IF s = <<>> THEN <<>> ELSE NfdChar(LowerChar(Head(s))) \o FlatMapNfd(Tail(s))

\* re.sub(r"(\w\.)\s(\w\.)", r"\1\2", data): leftmost, non-overlapping matches,
\* the scan resuming after the end of each match.
RECURSIVE SubInitials(_, _)
SubInitials(s, i) ==
    IF i > Len(s) THEN <<>>
    ELSE IF /\ i + 4 <= Len(s)
            /\ s[i] \in WordChars /\ s[i + 1] = "."
            /\ s[i + 2] \in SpaceChars
            /\ s[i + 3] \in WordChars /\ s[i + 4] = "."
         THEN <<s[i], s[i + 1], s[i + 3], s[i + 4]>> \o SubInitials(s, i + 5)
         ELSE <<s[i]>> \o SubInitials(s, i + 1)

\* re.sub(r"[!?]", "", data)
DropMarks(s) == SelectSeq(s, LAMBDA c : c \notin {"!", "?"})

RECURSIVE LStrip(_)
LStrip(s) ==
    IF s # <<>> /\ Head(s) \in SpaceChars THEN LStrip(Tail(s)) ELSE s

RECURSIVE RStrip(_)
RStrip(s) ==
    IF s # <<>> /\ s[Len(s)] \in SpaceChars
    THEN RStrip(SubSeq(s, 1, Len(s) - 1)) ELSE s

\* str.strip()
Strip(s) == LStrip(RStrip(s))

\* GndClient._normalize_input
NormalizeInput(data) ==
    IF IsNA(data) THEN <<>>
    ELSE Strip(DropMarks(SubInitials(SelectSeq(FlatMapNfd(data), NotMn), 1)))

(***************************************************************************)
(* SpecNorm: _normalize_input applied to an input and again to its result. *)
(***************************************************************************)
MaxStrLen == 6

NormAlphabet == {"a", "A", "a_acute", ".", " ", "!"}

NormInputs == UNION {[1..n -> NormAlphabet] : n \in 0..MaxStrLen}

NormIdle ==
    /\ n_pc = "idle" /\ n_in = <<>> /\ n_once = <<>> /\ n_twice = <<>>

NormStart ==
    /\ n_pc = "start"
    /\ n_in \in NormInputs
    /\ n_once = <<>>
    /\ n_twice = <<>>

NormalizeOnce ==
    /\ n_pc = "start"
    /\ n_once' = NormalizeInput(n_in)
    /\ n_pc' = "once"
    /\ UNCHANGED <<n_in, n_twice>>
    /\ UNCHANGED <<httpVars, gndVars, enrichVars, wikiVars, geoVars, mainVars, sharedVars>>

NormalizeTwice ==
    /\ n_pc = "once"
    /\ n_twice' = NormalizeInput(n_once)
    /\ n_pc' = "twice"
    /\ UNCHANGED <<n_in, n_once>>
    /\ UNCHANGED <<httpVars, gndVars, enrichVars, wikiVars, geoVars, mainVars, sharedVars>>

NormNext == NormalizeOnce \/ NormalizeTwice

(***************************************************************************)
(* HttpClient: rate_limited.wrapper around fetch_page, on one client.      *)
(* Time is counted in ticks of the wall clock; the clock may advance       *)
(* between any two statements.                                             *)
(***************************************************************************)
MaxTime == 4

MaxCalls == 3

MaxFail == 6

\* Retry(total=5, connect=2, read=2, status_forcelist=[500, 502, 503, 504])
RetryTotal == 5

RetryConnect == 2

RetryRead == 2

\* parse(rate_limit): amount per window; "1/3seconds" is the limit of the
\* module's own test run, the second is a limit of two per window.
RateLimits == {[n |-> 1, w |-> 3], [n |-> 2, w |-> 2]}

Schemes == {"https", "http"}

Rep(x, k) == [i \in 1..k |-> x]

\* What the server does with the successive attempts of one call:
\* "status_retry" is a response with status 500/502/503/504, "status_other"
\* a response with any other error status (4xx), "conn_err"/"read_err" a
\* connection error / read timeout, "ok" a 2xx response.
MixedScript ==
    <<"conn_err", "conn_err", "read_err", "read_err", "status_retry",
      "status_retry", "ok">>

Scripts ==
    {Rep("status_retry", c) \o <<"ok">> : c \in 0..MaxFail}
        \cup {Rep(k, c) \o <<"ok">> :
                 k \in {"conn_err", "read_err"}, c \in 1..(RetryConnect + 1)}
        \cup {<<"status_other">>, MixedScript}

NoCall ==
    [scheme |-> "none", script |-> <<>>, hit |-> TRUE, oldest |-> 0,
     waited |-> FALSE, wait |-> 0, at |-> 0, sent |-> 0, result |-> "none"]

HttpIdle ==
    /\ h_pc = "off" /\ h_now = 0 /\ h_limit = [n |-> 1, w |-> 3]
    /\ h_events = <<>> /\ h_reset = 0 /\ h_script = <<>>
    /\ h_retry = [total |-> 0, connect |-> 0, read |-> 0]
    /\ h_sent = <<>> /\ h_calls = 0 /\ h_call = NoCall

\* HttpClient.__init__
HttpStart ==
    /\ h_pc = "idle" /\ h_now = 0
    /\ h_limit \in RateLimits
    /\ h_events = <<>> /\ h_reset = 0 /\ h_script = <<>>
    /\ h_retry = [total |-> 0, connect |-> 0, read |-> 0]
    /\ h_sent = <<>> /\ h_calls = 0 /\ h_call = NoCall

\* An entry of the window is live at time t while atime >= t - expiry.
InWindow(atime, t) == atime >= t - h_limit.w

\* MemoryStorage.acquire_entry as used by MovingWindowRateLimiter.hit: refuse
\* when the n-th newest entry is still inside the window.
HitRefused(t) ==
    /\ Len(h_events) >= h_limit.n
    /\ InWindow(h_events[h_limit.n], t)

\* MovingWindowRateLimiter.get_window_stats(...).reset_time: the acquisition
\* time of the oldest live entry (the current time when none is live) plus
\* the window length.
ResetTime(t) ==
    LET live == {i \in DOMAIN h_events : InWindow(h_events[i], t)}
    IN  IF live = {} THEN t + h_limit.w
        ELSE LET oldest == CHOOSE i \in live : \A j \in live : j <= i
             IN  h_events[oldest] + h_limit.w

\* The adapter session.get() picks for the URL: the retrying adapter is
\* mounted for "https://" only; any other URL gets the session's default
\* adapter, whose max_retries is Retry(0, read=False).
AdapterRetry(scheme) ==
    IF scheme = "https"
    THEN [total |-> RetryTotal, connect |-> RetryConnect, read |-> RetryRead,
          forcelist |-> TRUE, readretry |-> TRUE]
    ELSE [total |-> 0, connect |-> 0, read |-> 0,
          forcelist |-> FALSE, readretry |-> FALSE]

\* Retry.increment for one failed attempt.
Increment(r, outcome) ==
    [r EXCEPT !.total = @ - 1,
              !.connect = IF outcome = "conn_err" THEN @ - 1 ELSE @,
              !.read = IF outcome = "read_err" THEN @ - 1 ELSE @]

\* Retry.is_exhausted
IsExhausted(r) == r.total < 0 \/ r.connect < 0 \/ r.read < 0

\* Time passes.
Tick ==
    /\ h_pc # "off"
    /\ h_now < MaxTime
    /\ h_now' = h_now + 1
    /\ UNCHANGED <<h_pc, h_limit, h_events, h_reset, h_script, h_retry,
                   h_sent, h_calls, h_call>>
    /\ UNCHANGED <<normVars, gndVars, enrichVars, wikiVars, geoVars, mainVars, sharedVars>>

\* wrapper, line 34: self._limiter.hit(self._limit, self._key)
FetchPageHit ==
    /\ h_pc = "idle"
    /\ h_calls < MaxCalls
    /\ \E scheme \in Schemes, script \in Scripts :
        /\ h_script' = script
        /\ h_retry' = AdapterRetry(scheme)
        /\ h_calls' = h_calls + 1
        /\ IF HitRefused(h_now)
           THEN /\ h_pc' = "stats"
                /\ h_call' = [NoCall EXCEPT !.scheme = scheme,
                                           !.script = script,
                                           !.hit = FALSE,
                                           !.oldest = h_events[h_limit.n],
                                           !.result = "pending"]
                /\ UNCHANGED h_events
           ELSE /\ h_pc' = "request"
                /\ h_call' = [NoCall EXCEPT !.scheme = scheme,
                                           !.script = script,
                                           !.result = "pending"]
                \* expired entries are dropped by the storage's expiry timer
                /\ h_events' = <<h_now>> \o
                      SelectSeq(h_events, LAMBDA a : InWindow(a, h_now))
    /\ UNCHANGED <<h_now, h_limit, h_reset, h_sent>>
    /\ UNCHANGED <<normVars, gndVars, enrichVars, wikiVars, geoVars, mainVars, sharedVars>>

\* wrapper, lines 35-37: get_window_stats(...).reset_time
WindowStats ==
    /\ h_pc = "stats"
    /\ h_reset' = ResetTime(h_now)
    /\ h_pc' = "sleep"
    /\ UNCHANGED <<h_now, h_limit, h_events, h_script, h_retry, h_sent,
                   h_calls, h_call>>
    /\ UNCHANGED <<normVars, gndVars, enrichVars, wikiVars, geoVars, mainVars, sharedVars>>

\* wrapper, lines 38-41: wait_time = reset_time - time.time(); time.sleep.
\* time.sleep raises ValueError for a negative length, which leaves the
\* wrapper before fetch_page's body is entered.
Sleep ==
    /\ h_pc = "sleep"
    /\ LET wait == h_reset - h_now
       IN  IF wait < 0
           THEN /\ h_pc' = "idle"
                /\ h_call' = [h_call EXCEPT !.wait = wait, !.at = h_now,
                                            !.result = "ValueError"]
                /\ h_retry' = [total |-> 0, connect |-> 0, read |-> 0]
                /\ h_script' = <<>>
                /\ UNCHANGED h_now
           ELSE /\ h_pc' = "request"
                /\ h_call' = [h_call EXCEPT !.wait = wait, !.at = h_now,
                                            !.waited = TRUE]
                /\ h_now' = h_now + wait
                /\ UNCHANGED <<h_retry, h_script>>
    /\ UNCHANGED <<h_limit, h_events, h_reset, h_sent, h_calls>>
    /\ UNCHANGED <<normVars, gndVars, enrichVars, wikiVars, geoVars, mainVars, sharedVars>>

\* One attempt without the raise_for_status() of line 86: a response with a
\* status outside the retry list is returned like a success.
AttemptResultUnraised(outcome, r) ==
    CASE outcome \in {"ok", "status_other"} -> "response"
      [] outcome = "status_retry" ->
            IF ~r.forcelist THEN "response"
            ELSE IF IsExhausted(Increment(r, outcome)) THEN "None" ELSE "retry"
      [] outcome = "conn_err" ->
            IF IsExhausted(Increment(r, outcome)) THEN "None" ELSE "retry"
      [] outcome = "read_err" ->
            IF ~r.readretry THEN "None"
            ELSE IF IsExhausted(Increment(r, outcome)) THEN "None" ELSE "retry"

\* fetch_page, lines 84-93: one attempt of session.get() and what follows it.
\* Returns the call's result, or "retry" when the adapter tries again.
AttemptResult(outcome, r) ==
    CASE outcome = "ok" -> "response"
      [] outcome = "status_other" -> "None"
      [] outcome = "status_retry" ->
            IF ~r.forcelist THEN "None"
            ELSE IF IsExhausted(Increment(r, outcome)) THEN "None" ELSE "retry"
      [] outcome = "conn_err" ->
            IF IsExhausted(Increment(r, outcome)) THEN "None" ELSE "retry"
      [] outcome = "read_err" ->
            IF ~r.readretry THEN "None"
            ELSE IF IsExhausted(Increment(r, outcome)) THEN "None" ELSE "retry"

\* One attempt that is also entered in the rate-limit window.
AttemptRecorded ==
    /\ h_pc = "request"
    /\ LET outcome == Head(h_script)
           res == AttemptResult(outcome, h_retry)
       IN  /\ h_sent' = Append(SelectSeq(h_sent,
                                LAMBDA t : t > h_now - h_limit.w), h_now)
           /\ IF res = "retry"
              THEN /\ h_retry' = Increment(h_retry, outcome)
                   /\ h_script' = Tail(h_script)
                   /\ h_pc' = "request"
                   /\ h_call' = [h_call EXCEPT !.sent = @ + 1]
              ELSE /\ h_pc' = "idle"
                   /\ h_call' = [h_call EXCEPT !.sent = @ + 1, !.result = res]
                   /\ h_retry' = [total |-> 0, connect |-> 0, read |-> 0]
                   /\ h_script' = <<>>
    /\ h_events' = <<h_now>> \o h_events
    /\ UNCHANGED <<h_now, h_limit, h_reset, h_calls>>
    /\ UNCHANGED <<normVars, gndVars, enrichVars, wikiVars, geoVars, mainVars, sharedVars>>

Attempt ==
    /\ h_pc = "request"
    /\ LET outcome == Head(h_script)
           res == AttemptResult(outcome, h_retry)
       IN  /\ h_sent' = Append(SelectSeq(h_sent,
                                LAMBDA t : t > h_now - h_limit.w), h_now)
           /\ IF res = "retry"
              THEN /\ h_retry' = Increment(h_retry, outcome)
                   /\ h_script' = Tail(h_script)
                   /\ h_pc' = "request"
                   /\ h_call' = [h_call EXCEPT !.sent = @ + 1]
              ELSE /\ h_pc' = "idle"
                   /\ h_call' = [h_call EXCEPT !.sent = @ + 1, !.result = res]
                   /\ h_retry' = [total |-> 0, connect |-> 0, read |-> 0]
                   /\ h_script' = <<>>
    /\ UNCHANGED <<h_now, h_limit, h_events, h_reset, h_calls>>
    /\ UNCHANGED <<normVars, gndVars, enrichVars, wikiVars, geoVars, mainVars, sharedVars>>

HttpNext == Tick \/ FetchPageHit \/ WindowStats \/ Sleep \/ Attempt

(***************************************************************************)
(* GndClient: get_gnd_areacode and _validate_gnd_result.  What the lobid   *)
(* API answers is an input: resp[i] is the result of the search fetch for  *)
(* the i-th title, [ok |-> FALSE] standing for fetch_page returning None.  *)
(***************************************************************************)
\* self.excluded_types
\* No type tag excludes an item.
NoExcludedTypes == {}

ExcludedTypes ==
    {"Person", "DifferentiatedPerson", "CorporateBody", "ConferenceOrEvent",
     "MusicalWork"}

NoteNoAreacode == <<"No GND areacode">>

\* GndClient._extract_wikidata_id: the last path segment of the first sameAs
\* entry whose id contains "wikidata.org".
RECURSIVE ExtractWikidataId(_)
ExtractWikidataId(same_as_lst) ==
    IF same_as_lst = <<>> THEN NA
    ELSE IF Head(same_as_lst).host = "wikidata.org" THEN Head(same_as_lst).last
    ELSE ExtractWikidataId(Tail(same_as_lst))

\* GndClient._fetch_title_variants
FetchTitleVariants(item) ==
    LET all_titles == item.variantName \o <<item.preferredName>>
    IN  {NormalizeInput(all_titles[i]) : i \in DOMAIN all_titles}

\* " ".join(parts)
RECURSIVE JoinSpace(_)
JoinSpace(parts) ==
    IF parts = <<>> THEN <<>>
    ELSE IF Len(parts) = 1 THEN parts[1]
    ELSE parts[1] \o <<" ">> \o JoinSpace(Tail(parts))

\* GndClient._fetch_author_variants, lines 166-184: one variant's full name
FullName(variant) ==
    LET forenames == variant.forename \o variant.personalName
        surnames == variant.surname
    IN  IF surnames # <<>> /\ forenames # <<>>
        THEN JoinSpace(surnames) \o <<",", " ">> \o JoinSpace(forenames)
        ELSE JoinSpace(forenames \o surnames)

\* GndClient._fetch_author_variants: entity is what the entity-detail fetch
\* for the first author's id returns.
FetchAuthorVariants(entity) ==
    IF ~entity.ok THEN {}
    ELSE {NormalizeInput(FullName(entity.variants[i])) :
            i \in DOMAIN entity.variants}

\* GndClient._validate_gnd_result.  verdict "raise": pd.isna(first_author)
\* is an array for a list, and its truth value is an error unless the list
\* has exactly one entry (first_author[0] fails on an empty one).
ValidateGndResult(item, work_wikidata_id, title, author) ==
    LET wikidata_id == ExtractWikidataId(item.sameAs)
        fa == item.firstAuthor
    IN  IF item.type \cap ExcludedTypes # {}
        THEN [verdict |-> "reject", by |-> "type", lookup |-> FALSE]
        ELSE IF /\ NotNA(wikidata_id) /\ NotNA(work_wikidata_id)
                /\ wikidata_id = work_wikidata_id
        THEN [verdict |-> "accept", by |-> "sameAs", lookup |-> FALSE]
        ELSE IF title \notin FetchTitleVariants(item)
        THEN [verdict |-> "reject", by |-> "title", lookup |-> FALSE]
        ELSE IF ~fa.present
        THEN [verdict |-> "reject", by |-> "noauthor", lookup |-> FALSE]
        ELSE IF Len(fa.list) # 1
        THEN [verdict |-> "raise", by |-> "firstAuthor", lookup |-> FALSE]
        ELSE IF NormalizeInput(fa.list[1].label) = NormalizeInput(author)
        THEN [verdict |-> "accept", by |-> "label", lookup |-> FALSE]
        ELSE IF IsNA(fa.list[1].id)
        THEN [verdict |-> "reject", by |-> "noid", lookup |-> FALSE]
        ELSE IF NormalizeInput(author) \in FetchAuthorVariants(fa.list[1].entity)
        THEN [verdict |-> "accept", by |-> "variant", lookup |-> TRUE]
        ELSE [verdict |-> "reject", by |-> "author", lookup |-> TRUE]

\* GndClient._extract_geocode: the first coded area, or (NA, NA)
ExtractGeocode(item) ==
    IF item.geographicAreaCode # <<>>
    THEN <<item.geographicAreaCode[1].id, item.geographicAreaCode[1].label>>
    ELSE <<NA, NA>>

\* GndClient._extract_titles: row is a function from column names to values;
\* the value of "Aliases" is [islist |-> TRUE, list |-> <<...>>] for a list.
RECURSIVE ExtractTitles(_, _)
ExtractTitles(row, title_columns) ==
    IF title_columns = <<>> THEN <<>>
    ELSE LET col == Head(title_columns)
             rest == ExtractTitles(row, Tail(title_columns))
         IN  IF col = "Aliases"
             THEN (IF row["Aliases"].islist THEN row["Aliases"].list ELSE <<>>)
                      \o rest
             ELSE IF NotNA(row[col]) THEN <<row[col]>> \o rest
             ELSE rest

\* get_gnd_areacode, lines 77-82: the items of one response in order.
\* Returns the first accepted item (or none), and the fetches made.
RECURSIVE ScanItems(_, _, _, _, _)
ScanItems(member, no, work_wikidata_id, title, author) ==
    IF no > Len(member)
    THEN [found |-> FALSE, raised |-> FALSE, no |-> 0, reqs |-> <<>>]
    ELSE LET v == ValidateGndResult(member[no], work_wikidata_id, title, author)
             rq == IF v.lookup THEN <<"author">> ELSE <<>>
         IN  IF v.verdict = "accept"
             THEN [found |-> TRUE, raised |-> FALSE, no |-> no, reqs |-> rq]
             ELSE IF v.verdict = "raise"
             THEN [found |-> FALSE, raised |-> TRUE, no |-> no, reqs |-> rq]
             ELSE LET r == ScanItems(member, no + 1, work_wikidata_id, title,
                                     author)
                  IN  [r EXCEPT !.reqs = rq \o @]

\* get_gnd_areacode, lines 58-84: titles in order from the i-th on
RECURSIVE ScanTitles(_, _, _, _, _)
ScanTitles(titles, i, resp, work_wikidata_id, author) ==
    IF i > Len(titles)
    THEN [code |-> NA, label |-> NA, note |-> NoteNoAreacode,
          raised |-> FALSE, reqs |-> <<>>, title |-> 0, no |-> 0]
    ELSE IF IsNA(titles[i])
    THEN ScanTitles(titles, i + 1, resp, work_wikidata_id, author)
    ELSE IF ~resp[i].ok
    THEN [code |-> NA, label |-> NA, note |-> NoteNoAreacode,
          raised |-> FALSE, reqs |-> <<"search">>, title |-> 0, no |-> 0]
    ELSE IF resp[i].totalItems = 0
    THEN LET r == ScanTitles(titles, i + 1, resp, work_wikidata_id, author)
         IN  [r EXCEPT !.reqs = <<"search">> \o @]
    ELSE LET title == NormalizeInput(titles[i])
             s == ScanItems(resp[i].member, 1, work_wikidata_id, title, author)
         IN  IF s.found
             THEN LET g == ExtractGeocode(resp[i].member[s.no])
                  IN  [code |-> g[1], label |-> g[2], note |-> NA,
                       raised |-> FALSE, reqs |-> <<"search">> \o s.reqs,
                       title |-> i, no |-> s.no]
             ELSE IF s.raised
             THEN [code |-> NA, label |-> NA, note |-> NA, raised |-> TRUE,
                   reqs |-> <<"search">> \o s.reqs, title |-> i, no |-> s.no]
             ELSE LET r == ScanTitles(titles, i + 1, resp, work_wikidata_id,
                                      author)
                  IN  [r EXCEPT !.reqs = <<"search">> \o s.reqs \o @]

\* get_gnd_areacode with a failed search fetch handled like a search without
\* results (the next title is tried).
GetGndAreacodeSkippingFailures(row, title_columns, resp) ==
    ScanTitles(ExtractTitles(row, title_columns), 1,
               [i \in DOMAIN resp |->
                   IF resp[i].ok THEN resp[i]
                   ELSE [ok |-> TRUE, totalItems |-> 0, member |-> <<>>]],
               row["Work Wikidata ID"], row["Author"])

\* GndClient.get_gnd_areacode
GetGndAreacode(row, title_columns, resp) ==
    ScanTitles(ExtractTitles(row, title_columns), 1, resp,
               row["Work Wikidata ID"], row["Author"])

(***************************************************************************)
(* SpecGnd: get_gnd_areacode and _validate_gnd_result on bounded inputs.   *)
(***************************************************************************)
MaxItems == 2

Q1 == <<"Q", "1">>

Q2 == <<"Q", "2">>

WD(q) == [host |-> "wikidata.org", last |-> q]

VIAF(q) == [host |-> "viaf.org", last |-> q]

AreaXA == [id |-> <<"X", "A">>, label |-> <<"a">>]

AreaXB == [id |-> <<"X", "B">>, label |-> <<"b">>]

NoAuthor == [present |-> FALSE, list |-> <<>>]

NoEntity == [ok |-> FALSE, variants |-> <<>>]

Author(label, id, entity) ==
    [label |-> label, id |-> id, entity |-> entity]

OneAuthor(label, id, entity) ==
    [present |-> TRUE, list |-> <<Author(label, id, entity)>>]

\* entity-detail answer with the single name variant "B" (surname only)
EntityB ==
    [ok |-> TRUE,
     variants |-> <<[forename |-> <<>>, surname |-> <<<<"B">>>>,
                     personalName |-> <<>>]>>]

Item(type, sameAs, pref, variants, fa, geo) ==
    [type |-> type, sameAs |-> sameAs, preferredName |-> pref,
     variantName |-> variants, firstAuthor |-> fa, geographicAreaCode |-> geo]

\* Candidate items of a search answer for the title "A!" by "B".
GndItems ==
    { \* a person record (one of its two type tags) that matches in every
      \* other respect
      Item({"AuthorityResource", "Person"}, <<WD(Q1)>>, <<"a">>, <<>>,
           OneAuthor(<<"b">>, NA, NoEntity), <<AreaXA>>),
      \* cross-reference to Q1 behind a VIAF link; other title; two areas
      Item({"Work"}, <<VIAF(Q1), WD(Q1)>>, <<"b">>, <<>>, NoAuthor,
           <<AreaXA, AreaXB>>),
      \* two wikidata cross-references, Q1 the second; other title
      Item({"Work"}, <<WD(Q2), WD(Q1)>>, <<"b">>, <<>>, NoAuthor, <<AreaXB>>),
      \* title (accented) and author label match
      Item({"Work"}, <<>>, <<"a_acute">>, <<>>,
           OneAuthor(<<"b">>, NA, NoEntity), <<AreaXB>>),
      \* variant title matches, author only through the name variants; no area
      Item({"Work"}, <<>>, <<"b">>, <<<<"a">>>>,
           OneAuthor(<<"a">>, <<"p", "1">>, EntityB), <<>>),
      \* title matches, first author without label and id
      Item({"Work"}, <<>>, <<"a">>, <<>>, OneAuthor(NA, NA, NoEntity),
           <<AreaXA>>),
      \* title matches, other author, the variant fetch fails
      Item({"Work"}, <<>>, <<"a">>, <<>>,
           OneAuthor(<<"a">>, <<"p", "2">>, NoEntity), <<AreaXA>>),
      \* nothing matches
      Item({"Work"}, <<>>, <<"b">>, <<>>, NoAuthor, <<AreaXA>>),
      \* title matches, two first authors
      Item({"Work"}, <<>>, <<"a">>, <<>>,
           [present |-> TRUE,
            list |-> <<Author(<<"b">>, NA, NoEntity),
                       Author(<<"a">>, NA, NoEntity)>>], <<AreaXA>>) }

FetchFailed == [ok |-> FALSE, totalItems |-> 0, member |-> <<>>]

Answer(member) == [ok |-> TRUE, totalItems |-> Len(member), member |-> member]

\* answers with up to k items (and the failed fetch)
Answers(items, k) ==
    {FetchFailed} \cup
        UNION {{Answer(m) : m \in [1..n -> items]} : n \in 0..k}

NoAliases == [islist |-> FALSE, list |-> <<>>]

GndRow(author, wid, title, alt) ==
    [c \in {"Author", "Work Wikidata ID", "Book Title", "Original/Alt Title",
            "German Title", "Aliases"} |->
        CASE c = "Author" -> author
          [] c = "Work Wikidata ID" -> wid
          [] c = "Book Title" -> title
          [] c = "Original/Alt Title" -> alt
          [] c = "German Title" -> NA
          [] c = "Aliases" -> NoAliases]

GndRows ==
    {GndRow(a, w, <<"A", "!">>, t) :
        a \in {NA, <<"B">>}, w \in {NA, Q1}, t \in {NA, <<"b">>}}

PrimaryColumns == <<"Book Title", "Original/Alt Title">>

NoVal == [title |-> 0, no |-> 0, verdict |-> "none", by |-> "none",
          lookup |-> FALSE]

NoRes ==
    [code |-> NA, label |-> NA, note |-> NA, raised |-> FALSE, reqs |-> <<>>,
     title |-> 0, no |-> 0]

GndIdle ==
    /\ g_pc = "off" /\ g_row = GndRow(NA, NA, NA, NA)
    /\ g_resp = <<FetchFailed, FetchFailed>>
    /\ g_val = NoVal /\ g_res = NoRes

GndStart ==
    /\ g_pc = "start"
    /\ g_row \in GndRows
    /\ g_resp \in Answers(GndItems, MaxItems) \X Answers(GndItems, 1)
    /\ g_val = NoVal
    /\ g_res = NoRes

\* _validate_gnd_result on one item of an answer, with the title it was
\* searched for
GndValidate ==
    /\ g_pc = "start"
    /\ LET titles == ExtractTitles(g_row, PrimaryColumns)
       IN  \E i \in DOMAIN titles :
             \E no \in DOMAIN g_resp[i].member :
                LET v == ValidateGndResult(g_resp[i].member[no],
                                           g_row["Work Wikidata ID"],
                                           NormalizeInput(titles[i]),
                                           g_row["Author"])
                IN  g_val' = [title |-> i, no |-> no, verdict |-> v.verdict,
                              by |-> v.by, lookup |-> v.lookup]
    /\ g_pc' = "validated"
    /\ UNCHANGED <<g_row, g_resp, g_res>>
    /\ UNCHANGED <<normVars, httpVars, enrichVars, wikiVars, geoVars, mainVars, sharedVars>>

GndCall ==
    /\ g_pc = "start"
    /\ g_res' = GetGndAreacode(g_row, PrimaryColumns, g_resp)
    /\ g_pc' = "returned"
    /\ UNCHANGED <<g_row, g_resp, g_val>>
    /\ UNCHANGED <<normVars, httpVars, enrichVars, wikiVars, geoVars, mainVars, sharedVars>>

GndNext == GndValidate \/ GndCall

(***************************************************************************)
(* SpecEnrich: enrich_with_geolocation over a table of NumRecords records. *)
(* The applies and the loop take one step per record (one lookup each);    *)
(* the table operations between two applies are one step.                  *)
(***************************************************************************)
NumRecords == 2

Records == 1..NumRecords

EColumns ==
    {"Author", "Book Title", "Original/Alt Title", "Work Wikidata ID",
     "Author Wikidata ID", "GND Areacode", "GND Arealabel", "note",
     "German Title", "Aliases", "P495", "P19", "Geonames ID", "GND Mapping",
     "Latitude", "Longitude"}

\* lines 20-33: an input record with the new columns set to pd.NA
ERow(author, title, alt, wid, aqid) ==
    [c \in EColumns |->
        CASE c = "Author" -> author
          [] c = "Book Title" -> title
          [] c = "Original/Alt Title" -> alt
          [] c = "Work Wikidata ID" -> wid
          [] c = "Author Wikidata ID" -> aqid
          [] c = "Aliases" -> NoAliases
          [] OTHER -> NA]

\* the input records: with both identifiers (and an alternate title), without
\* the work's, with none
ERows ==
    {ERow(<<"B">>, <<"A", "!">>, <<"b">>, Q1, Q2),
     ERow(<<"B">>, <<"A", "!">>, NA, NA, Q2),
     ERow(<<"B">>, <<"A", "!">>, NA, NA, NA)}

\* ".../geographic-area-code#ZZ" of lines 70 and 78
SentinelZZ == <<"Z", "Z">>

\* a coded area whose id arrives with a leading blank
AreaPadded == [id |-> <<" ", "X", "A">>, label |-> <<"a">>]

AreaZZ == [id |-> SentinelZZ, label |-> <<"Z">>]

\* an item get_gnd_areacode accepts for the titles "A!" and "c" by "B"
EnrichItem(geo) ==
    Item({"Work"}, <<>>, <<"a">>, <<<<"c">>>>,
         OneAuthor(<<"b">>, NA, NoEntity), geo)

\* what the search API answers in a run
EnrichAnswers ==
    {FetchFailed, Answer(<<>>), Answer(<<EnrichItem(<<>>)>>),
     Answer(<<EnrichItem(<<AreaPadded>>)>>),
     Answer(<<EnrichItem(<<AreaZZ>>)>>)}

AliasColumns == <<"German Title", "Aliases">>

\* _fetch_wikidata_item + get_wikidata_labels: the fetch raises, or the item
\* has the German label and the aliases given
LabelOutcomes ==
    {[raised |-> TRUE, german |-> NA, aliases |-> NoAliases],
     [raised |-> FALSE, german |-> NA, aliases |-> NoAliases],
     [raised |-> FALSE, german |-> <<"c">>, aliases |-> NoAliases],
     [raised |-> FALSE, german |-> NA,
      aliases |-> [islist |-> TRUE, list |-> <<<<"c">>>>]]}

\* _fetch_wikidata_item + get_wikidata_property: the fetch raises, or the
\* first claim's English label (NA: no claim, unknown value, no label)
\* The birthplace recorded for the author is one that is also a key of the
\* label table.
PropertyOutcomes(p_number) ==
    {[raised |-> TRUE, value |-> NA], [raised |-> FALSE, value |-> NA]}
    \cup (IF p_number = "P495"
          THEN {[raised |-> FALSE, value |-> <<"England">>],
                [raised |-> FALSE, value |-> <<"Atlantis">>]}
          ELSE {[raised |-> FALSE, value |-> <<"England">>]})

\* wikidata_to_gnd(): English area label -> area code
ArealabelDict == (<<"England">> :> <<"X", "B">>)

\* gnd_to_geonames(): area code -> gazetteer URI
GeonamesDicts ==
    {(<<"X", "A">> :> <<"g", "/", "1">>) @@ (<<"X", "B">> :> <<"g", "/", "2">>),
     (<<"X", "A">> :> <<"g", "/", "3">>) @@ (<<"X", "B">> :> <<"g", "/", "1">>)
        @@ (SentinelZZ :> <<"g", "/", "3">>)}

\* dict.get(key, pd.NA)
DictGet(d, key) == IF key \in DOMAIN d THEN d[key] ELSE NA

\* match_arealabel
MatchArealabel(p_value, gnd_arealabel_dict) ==
    IF NotNA(p_value) /\ p_value \in DOMAIN gnd_arealabel_dict
    THEN gnd_arealabel_dict[p_value]
    ELSE NA

DigitChars == {"0", "1", "2", "3", "4", "5", "6", "7", "8", "9"}

RECURSIVE TakeDigits(_)
TakeDigits(s) ==
    IF s = <<>> \/ Head(s) \notin DigitChars THEN <<>>
    ELSE <<Head(s)>> \o TakeDigits(Tail(s))

\* Series.str.extract(r"(\d+)", expand=False) on one value: the first run of
\* digits, NA when there is none
RECURSIVE ExtractDigits(_)
ExtractDigits(s) ==
    IF IsNA(s) \/ s = <<>> THEN NA
    ELSE IF Head(s) \in DigitChars THEN TakeDigits(s)
    ELSE ExtractDigits(Tail(s))

\* Series.str.strip() on one value
StrStrip(v) == IF IsNA(v) THEN NA ELSE Strip(v)

\* the column left as it is
UnstrippedColumn(df, col) == df

\* df[col] = df[col].str.strip()
StripColumn(df, col) ==
    [r \in Records |-> [df[r] EXCEPT ![col] = StrStrip(@)]]

InSeq(s, x) == \E k \in DOMAIN s : s[k] = x

PositionIn(s, x) == CHOOSE k \in DOMAIN s : s[k] = x

\* df.loc[rows, cols] = results (one tuple of values per row of rows)
Assign(df, rows, cols, results) ==
    [r \in Records |->
        IF InSeq(rows, r)
        THEN [c \in EColumns |->
                IF InSeq(cols, c)
                THEN results[PositionIn(rows, r)][PositionIn(cols, c)]
                ELSE df[r][c]]
        ELSE df[r]]

\* df[mask].index: the records of the set keep, in table order
RowsWhere(keep) ==
    LET F[i \in 0..NumRecords] ==
            IF i = 0 THEN <<>>
            ELSE IF i \in keep THEN Append(F[i - 1], i) ELSE F[i - 1]
    IN  F[NumRecords]

AnyRow(row) == TRUE

AreacodeMissing(row) == IsNA(row["GND Areacode"])

AreacodeMissingOrZZ(row) ==
    IsNA(row["GND Areacode"]) \/ row["GND Areacode"] = SentinelZZ

AllRows(df) == RowsWhere({r \in Records : AnyRow(df[r])})

\* lines 44 and 56 without the isna mask
AlsoResolvedRows(df) == RowsWhere({r \in Records : AnyRow(df[r])})

\* lines 44 and 56
MissingAreacodeRows(df) == RowsWhere({r \in Records : AreacodeMissing(df[r])})

\* line 70 without the mask
AlsoCodedRows(df) == RowsWhere({r \in Records : AnyRow(df[r])})

\* line 70
PropertyRows(df) == RowsWhere({r \in Records : AreacodeMissingOrZZ(df[r])})

BirthplaceGate(row) == AreacodeMissingOrZZ(row) /\ IsNA(row["P495"])

\* line 78
BirthplaceRows(df) == RowsWhere({r \in Records : BirthplaceGate(df[r])})

\* lines 95-103 with the two lookups in the other order
MappingFirstGeonamesId(row, geonames_dict) ==
    LET from_mapping == DictGet(geonames_dict, row["GND Mapping"])
    IN  IF IsNA(from_mapping)
        THEN DictGet(geonames_dict, row["GND Areacode"])
        ELSE from_mapping

\* lines 95-103 on one record
MapGeonamesId(row, geonames_dict) ==
    LET from_areacode ==
            IF IsNA(row["Geonames ID"])
            THEN DictGet(geonames_dict, row["GND Areacode"])
            ELSE row["Geonames ID"]
    IN  IF IsNA(from_areacode)
        THEN DictGet(geonames_dict, row["GND Mapping"])
        ELSE from_areacode

\* DataFrame.update on one cell: a non-NA value of the other frame wins
Updated(old, new) == IF NotNA(new) THEN new ELSE old

\* what the gazetteer holds for an id
GeoCoordinates(geoname_id) ==
    <<<<"l", "a", "t">> \o geoname_id, <<"l", "n", "g">> \o geoname_id>>

\* get_geonames_data: failed fetch, API-reported error, document without
\* lat or lng, document with both
GeonamesOutcomes == {"none", "api_error", "no_coordinates", "ok"}

EnrichIdle ==
    /\ e_pc = "off" /\ e_i = 0 /\ e_df = <<>> /\ e_rows = <<>>
    /\ e_results = <<>> /\ e_error = "none" /\ e_log = <<>>
    /\ e_geodict = <<>>

\* lines 15-36: the table as read, the new columns absent
EnrichStart ==
    /\ e_pc = "primary" /\ e_i = 1
    /\ e_df \in [Records -> ERows]
    /\ e_rows = [r \in Records |-> r]
    /\ e_results = <<>> /\ e_error = "none" /\ e_log = <<>>
    /\ e_geodict \in GeonamesDicts

LogEntry(r, kind) ==
    [rec |-> r, kind |-> kind, code |-> e_df[r]["GND Areacode"],
     p495 |-> e_df[r]["P495"]]

\* a get_gnd_areacode call that sent searches: besides, the area code it
\* returned
GndLogEntry(r, kind, res) ==
    [rec |-> r, kind |-> kind, code |-> e_df[r]["GND Areacode"],
     p495 |-> e_df[r]["P495"], returned |-> res.code]

\* an exception leaves enrich_with_geolocation
Raise(error) ==
    /\ e_pc' = "failed" /\ e_error' = error
    /\ UNCHANGED <<e_i, e_df, e_rows, e_results, e_geodict>>

\* the running apply / loop has the result of one more record
Collect(result) ==
    /\ e_results' = Append(e_results, result)
    /\ e_i' = e_i + 1
    /\ UNCHANGED <<e_pc, e_df, e_rows, e_error, e_geodict>>

\* the next apply / loop starts on rows of the table df
StartStage(stage, df, rows) ==
    /\ e_pc' = stage /\ e_i' = 1 /\ e_df' = df /\ e_rows' = rows
    /\ e_results' = <<>>
    /\ UNCHANGED <<e_error, e_log, e_geodict>>

\* lines 36-40 and 57-61: get_gnd_areacode on the next record of the apply
GndStage(title_columns, kind) ==
    /\ e_i <= Len(e_rows)
    /\ LET r == e_rows[e_i]
           titles == ExtractTitles(e_df[r], title_columns)
       IN  \E resp \in [DOMAIN titles -> EnrichAnswers] :
              LET res == GetGndAreacode(e_df[r], title_columns, resp)
              IN  /\ e_log' = IF res.reqs = <<>> THEN e_log
                              ELSE Append(e_log, GndLogEntry(r, kind, res))
                  /\ IF res.raised THEN Raise("ValueError")
                     ELSE Collect(<<res.code, res.label, res.note>>)
    /\ UNCHANGED <<normVars, httpVars, gndVars, wikiVars, geoVars, mainVars, sharedVars>>

PrimaryStep ==
    /\ e_pc = "primary"
    /\ GndStage(PrimaryColumns, "gnd_primary")

\* lines 41-44, and line 45 when no record is left: the apply on an empty
\* frame returns the frame, and unpacking its column names into two tuples
\* or building the Series of line 52 from them is a ValueError
PrimaryFinish ==
    /\ e_pc = "primary" /\ e_i > Len(e_rows)
    /\ LET df == Assign(e_df, e_rows,
                        <<"GND Areacode", "GND Arealabel", "note">>, e_results)
           remaining_rows == MissingAreacodeRows(df)
       IN  IF remaining_rows = <<>>
           THEN /\ e_pc' = "failed" /\ e_error' = "ValueError"
                /\ e_df' = df
                /\ UNCHANGED <<e_i, e_rows, e_results, e_log, e_geodict>>
           ELSE StartStage("labels", df, remaining_rows)
    /\ UNCHANGED <<normVars, httpVars, gndVars, wikiVars, geoVars, mainVars, sharedVars>>

\* lines 45-50: get_wikidata_labels on the next remaining record
LabelsStep ==
    /\ e_pc = "labels" /\ e_i <= Len(e_rows)
    /\ LET r == e_rows[e_i]
           q_number == e_df[r]["Work Wikidata ID"]
       IN  IF IsNA(q_number)
           THEN Collect(<<NA, NoAliases>>) /\ UNCHANGED e_log
           ELSE \E item \in LabelOutcomes :
                  /\ e_log' = Append(e_log, LogEntry(r, "kb_labels"))
                  /\ IF item.raised THEN Raise("WikidataError")
                     ELSE Collect(<<item.german, item.aliases>>)
    /\ UNCHANGED <<normVars, httpVars, gndVars, wikiVars, geoVars, mainVars, sharedVars>>

\* lines 52-56
LabelsFinish ==
    /\ e_pc = "labels" /\ e_i > Len(e_rows)
    /\ LET df == Assign(e_df, e_rows, AliasColumns, e_results)
       IN  StartStage("alias", df, MissingAreacodeRows(df))
    /\ UNCHANGED <<normVars, httpVars, gndVars, wikiVars, geoVars, mainVars, sharedVars>>

AliasStep ==
    /\ e_pc = "alias"
    /\ GndStage(AliasColumns, "gnd_alias")

\* lines 62-70
AliasFinish ==
    /\ e_pc = "alias" /\ e_i > Len(e_rows)
    /\ LET assigned == Assign(e_df, e_rows,
                              <<"GND Areacode", "GND Arealabel", "note">>,
                              e_results)
           df == StripColumn(assigned, "GND Areacode")
       IN  StartStage("p495", df, PropertyRows(df))
    /\ UNCHANGED <<normVars, httpVars, gndVars, wikiVars, geoVars, mainVars, sharedVars>>

\* lines 71-75 and 79-83: get_wikidata_property on the next remaining record
PropertyStage(p_number, q_col, kind) ==
    /\ e_i <= Len(e_rows)
    /\ LET r == e_rows[e_i]
           q_number == e_df[r][q_col]
       IN  IF IsNA(q_number)
           THEN Collect(<<NA>>) /\ UNCHANGED e_log
           ELSE \E out \in PropertyOutcomes(p_number) :
                  /\ e_log' = Append(e_log, LogEntry(r, kind))
                  /\ IF out.raised THEN Raise("WikidataError")
                     ELSE Collect(<<out.value>>)
    /\ UNCHANGED <<normVars, httpVars, gndVars, wikiVars, geoVars, mainVars, sharedVars>>

P495Step ==
    /\ e_pc = "p495"
    /\ PropertyStage("P495", "Work Wikidata ID", "kb_p495")

\* lines 76-78
P495Finish ==
    /\ e_pc = "p495" /\ e_i > Len(e_rows)
    /\ LET df == Assign(e_df, e_rows, <<"P495">>, e_results)
       IN  StartStage("p19", df, BirthplaceRows(df))
    /\ UNCHANGED <<normVars, httpVars, gndVars, wikiVars, geoVars, mainVars, sharedVars>>

P19Step ==
    /\ e_pc = "p19"
    /\ PropertyStage("P19", "Author Wikidata ID", "kb_p19")

\* lines 84-112
P19Finish ==
    /\ e_pc = "p19" /\ e_i > Len(e_rows)
    /\ LET fetched == Assign(e_df, e_rows, <<"P19">>, e_results)
           mapped == [r \in Records |->
                        [fetched[r] EXCEPT !["GND Mapping"] =
                            MatchArealabel(fetched[r]["P495"], ArealabelDict)]]
           stripped == StripColumn(StripColumn(mapped, "GND Areacode"),
                                   "GND Mapping")
           df == [r \in Records |->
                    [stripped[r] EXCEPT !["Geonames ID"] =
                        MapGeonamesId(stripped[r], e_geodict)]]
       IN  StartStage("geonames", df, AllRows(df))
    /\ UNCHANGED <<normVars, httpVars, gndVars, wikiVars, geoVars, mainVars, sharedVars>>

\* lines 113-120: one round of the loop over geonames_df["Geonames ID"]
GeonamesStep ==
    /\ e_pc = "geonames" /\ e_i <= Len(e_rows)
    /\ LET r == e_rows[e_i]
           geoname_id == ExtractDigits(e_df[r]["Geonames ID"])
       IN  IF IsNA(geoname_id)
           THEN Collect(<<NA, NA>>) /\ UNCHANGED e_log
           ELSE \E out \in GeonamesOutcomes :
                  /\ e_log' = Append(e_log, LogEntry(r, "geonames"))
                  /\ IF out = "api_error" THEN Raise("GeoNamesAPIError")
                     ELSE IF out = "ok" THEN Collect(GeoCoordinates(geoname_id))
                     ELSE Collect(<<NA, NA>>)
    /\ UNCHANGED <<normVars, httpVars, gndVars, wikiVars, geoVars, mainVars, sharedVars>>

\* lines 122-127
GeonamesFinish ==
    /\ e_pc = "geonames" /\ e_i > Len(e_rows)
    /\ e_df' = [r \in Records |->
                  [e_df[r] EXCEPT
                     !["Geonames ID"] = Updated(@, ExtractDigits(@)),
                     !["Latitude"] = Updated(@, e_results[r][1]),
                     !["Longitude"] = Updated(@, e_results[r][2])]]
    /\ e_pc' = "done"
    /\ UNCHANGED <<e_i, e_rows, e_results, e_error, e_log, e_geodict>>
    /\ UNCHANGED <<normVars, httpVars, gndVars, wikiVars, geoVars, mainVars, sharedVars>>

EnrichNext ==
    \/ PrimaryStep \/ PrimaryFinish
    \/ LabelsStep \/ LabelsFinish
    \/ AliasStep \/ AliasFinish
    \/ P495Step \/ P495Finish
    \/ P19Step \/ P19Finish
    \/ GeonamesStep \/ GeonamesFinish

(***************************************************************************)
(* SpecWikidata: WikidataClient.get_wikidata_property on bounded items.    *)
(***************************************************************************)
MaxClaims == 3

\* claim.getTarget(): None for "unknown value", else an item with or without
\* an English label
ClaimTargets ==
    {[known |-> FALSE, label |-> NA], [known |-> TRUE, label |-> NA],
     [known |-> TRUE, label |-> <<"England">>],
     [known |-> TRUE, label |-> <<"Atlantis">>]}

\* _fetch_wikidata_item: an exception, or the item with its claims for
\* p_number (none: p_number is not in item.claims)
WikidataItems ==
    {[raised |-> TRUE, claims |-> <<>>]} \cup
    {[raised |-> FALSE, claims |-> c] :
        c \in UNION {[1..n -> ClaimTargets] : n \in 0..MaxClaims}}

\* get_wikidata_property, lines 35-45: the loop over the claims from the
\* i-th on; stopped: a target was None and the call returned pd.NA
RECURSIVE CollectCountries(_, _)
CollectCountries(claims, i) ==
    IF i > Len(claims) THEN [stopped |-> FALSE, countries |-> <<>>]
    ELSE IF ~claims[i].known THEN [stopped |-> TRUE, countries |-> <<>>]
    ELSE LET rest == CollectCountries(claims, i + 1)
         IN  [stopped |-> rest.stopped,
              countries |-> <<claims[i].label>> \o rest.countries]

\* WikidataClient.get_wikidata_property
GetWikidataProperty(q_number, item) ==
    IF IsNA(q_number) THEN [raised |-> FALSE, fetched |-> FALSE, value |-> NA]
    ELSE IF item.raised
    THEN [raised |-> TRUE, fetched |-> TRUE, value |-> NA]
    ELSE LET c == CollectCountries(item.claims, 1)
         IN  [raised |-> FALSE, fetched |-> TRUE,
              value |-> IF c.stopped \/ c.countries = <<>> THEN NA
                        ELSE c.countries[1]]

NoOut == [raised |-> FALSE, fetched |-> FALSE, value |-> NA]

WikidataIdle ==
    /\ w_pc = "off" /\ w_q = NA /\ w_item = [raised |-> FALSE, claims |-> <<>>]
    /\ w_out = NoOut

WikidataStart ==
    /\ w_pc = "start"
    /\ w_q \in {NA, Q1}
    /\ w_item \in WikidataItems
    /\ w_out = NoOut

WikidataCall ==
    /\ w_pc = "start"
    /\ w_out' = GetWikidataProperty(w_q, w_item)
    /\ w_pc' = IF w_out'.raised THEN "raised" ELSE "returned"
    /\ UNCHANGED <<w_q, w_item>>
    /\ UNCHANGED <<normVars, httpVars, gndVars, enrichVars, geoVars, mainVars, sharedVars>>

WikidataNext == WikidataCall

(***************************************************************************)
(* SpecGeonames: GeoNamesClient.get_geonames_data on bounded responses.    *)
(***************************************************************************)
DigitSeq == <<"0", "1", "2", "3", "4", "5", "6", "7", "8", "9">>

DigitValue(c) == (CHOOSE i \in DOMAIN DigitSeq : DigitSeq[i] = c) - 1

AllDigits(s) == \A i \in DOMAIN s : s[i] \in DigitChars

RECURSIVE DigitsValue(_)
DigitsValue(s) ==
    IF s = <<>> THEN 0
    ELSE DigitsValue(SubSeq(s, 1, Len(s) - 1)) * 10 + DigitValue(s[Len(s)])

RECURSIVE DropTrailingZeros(_)
DropTrailingZeros(s) ==
    IF s # <<>> /\ s[Len(s)] = "0"
    THEN DropTrailingZeros(SubSeq(s, 1, Len(s) - 1))
    ELSE s

\* float(text) for a text of blanks, a sign, digits and a point: the number
\* as sign, integer part and fraction digits, or ok = FALSE for ValueError
ParseFloat(text) ==
    LET s == Strip(text)
        negative == s # <<>> /\ s[1] = "-"
        body == IF negative THEN Tail(s) ELSE s
        points == {i \in DOMAIN body : body[i] = "."}
        whole == IF points = {} THEN body
                 ELSE SubSeq(body, 1, (CHOOSE i \in points : TRUE) - 1)
        fraction == IF points = {} THEN <<>>
                    ELSE SubSeq(body, (CHOOSE i \in points : TRUE) + 1,
                                Len(body))
    IN  IF \/ Cardinality(points) > 1
           \/ ~AllDigits(whole) \/ ~AllDigits(fraction)
           \/ (whole = <<>> /\ fraction = <<>>)
        THEN [ok |-> FALSE, negative |-> FALSE, whole |-> 0, fraction |-> <<>>]
        ELSE [ok |-> TRUE,
              negative |-> negative /\ (DigitsValue(whole) # 0
                                        \/ DropTrailingZeros(fraction) # <<>>),
              whole |-> DigitsValue(whole),
              fraction |-> DropTrailingZeros(fraction)]

\* xml_content.findtext(tag): None when the element is missing, else its text
NoElement == [present |-> FALSE, text |-> <<>>]

Element(text) == [present |-> TRUE, text |-> text]

CoordinateElements ==
    {NoElement, Element(<<>>), Element(<<"x">>), Element(<<"1">>),
     Element(<<" ", "2">>), Element(<<"-", "1", ".", "5", "0">>)}

\* what fetch_page returns: None, or a response whose content is not XML, or
\* a document with or without a status element (with or without a message)
GeonamesResponses ==
    {[ok |-> FALSE, xml |-> FALSE, status |-> "none", lat |-> NoElement,
      lng |-> NoElement],
     [ok |-> TRUE, xml |-> FALSE, status |-> "none", lat |-> NoElement,
      lng |-> NoElement]}
    \cup [ok : {TRUE}, xml : {TRUE},
          status : {"none", "no_message", "message"},
          lat : CoordinateElements, lng : CoordinateElements]

AbsentPair == [both |-> FALSE, lat |-> ParseFloat(<<>>), lng |-> ParseFloat(<<>>)]

Returns(pair) == [raised |-> "none", pair |-> pair]

Raises(error) == [raised |-> error, pair |-> AbsentPair]

StatusUncheckedGeonamesData(response) ==
    IF ~response.ok THEN Returns(AbsentPair)
    ELSE IF ~response.xml THEN Raises("ParseError")
    ELSE IF ~response.lat.present \/ ~response.lng.present
    THEN Returns(AbsentPair)
    ELSE LET latitude == ParseFloat(response.lat.text)
             longitude == ParseFloat(response.lng.text)
         IN  IF ~latitude.ok \/ ~longitude.ok THEN Raises("ValueError")
             ELSE Returns([both |-> TRUE, lat |-> latitude, lng |-> longitude])

\* GeoNamesClient.get_geonames_data, lines 48-68, on the fetched response
GetGeonamesData(response) ==
    IF ~response.ok THEN Returns(AbsentPair)
    ELSE IF ~response.xml THEN Raises("ParseError")
    ELSE IF response.status = "message" THEN Raises("GeoNamesAPIError")
    ELSE IF ~response.lat.present \/ ~response.lng.present
    THEN Returns(AbsentPair)
    ELSE LET latitude == ParseFloat(response.lat.text)
             longitude == ParseFloat(response.lng.text)
         IN  IF ~latitude.ok \/ ~longitude.ok THEN Raises("ValueError")
             ELSE Returns([both |-> TRUE, lat |-> latitude, lng |-> longitude])

GeonamesIdle ==
    /\ c_pc = "off" /\ c_fetches = 0 /\ c_out = Returns(AbsentPair)
    /\ c_resp = CHOOSE r \in GeonamesResponses : ~r.ok

GeonamesStart ==
    /\ c_pc = "start" /\ c_fetches = 0 /\ c_out = Returns(AbsentPair)
    /\ c_resp \in GeonamesResponses

\* line 47: _fetch_geonames_page, one fetch_page call
GeonamesFetch ==
    /\ c_pc = "start"
    /\ c_fetches' = c_fetches + 1
    /\ c_pc' = "fetched"
    /\ UNCHANGED <<c_resp, c_out>>
    /\ UNCHANGED <<normVars, httpVars, gndVars, enrichVars, wikiVars, mainVars, sharedVars>>

\* lines 48-68
GeonamesData ==
    /\ c_pc = "fetched"
    /\ c_out' = GetGeonamesData(c_resp)
    /\ c_pc' = IF c_out'.raised = "none" THEN "returned" ELSE "raised"
    /\ UNCHANGED <<c_resp, c_fetches>>
    /\ UNCHANGED <<normVars, httpVars, gndVars, enrichVars, wikiVars, mainVars, sharedVars>>

GeonamesNext == GeonamesFetch \/ GeonamesData

(***************************************************************************)
(* SpecMain: main()'s client set-up and scoped block (main.py lines 53-64) *)
(* with the constructors and __exit__ methods of the two scoped clients    *)
(* and the fetch helper of each of the three resolvers.  A constructor is  *)
(* split where the session has been created, since an exception can leave  *)
(* it before or after that point.                                          *)
(***************************************************************************)
MaxRequests == 3

ScopedClients == {"gnd", "geonames"}

Resolvers == {"gnd", "wikidata", "geonames"}

EnrichExceptions == {"GeoNamesAPIError", "WikidataError", "ValueError"}

MainIdle ==
    /\ m_pc = "off"
    /\ m_session = [c \in ScopedClients |-> "none"]
    /\ m_path = "running"
    /\ m_requests = [r \in Resolvers |-> 0]
    /\ m_checks = [r \in Resolvers |-> 0]

MainStart ==
    /\ m_pc = "gnd_init"
    /\ m_session = [c \in ScopedClients |-> "none"]
    /\ m_path = "running"
    /\ m_requests = [r \in Resolvers |-> 0]
    /\ m_checks = [r \in Resolvers |-> 0]

\* HttpClient.__init__, first statement: the session is created and kept.
SetupSession(client, next) ==
    /\ m_session' = [m_session EXCEPT ![client] = "open"]
    /\ m_pc' = next
    /\ UNCHANGED <<m_path, m_requests, m_checks>>

\* HttpClient.close: the session is closed.
Close(client) == [m_session EXCEPT ![client] = "closed"]

\* GndClient("5/second"): GndClient.__init__ up to the creation of the session.
GndSetupSession ==
    /\ m_pc = "gnd_init"
    /\ SetupSession("gnd", "gnd_limiter")
    /\ UNCHANGED <<normVars, httpVars, gndVars, enrichVars, wikiVars, geoVars, sharedVars>>

\* Rest of the first constructor, then GndClient.__enter__.
GndEnter ==
    /\ m_pc = "gnd_limiter"
    /\ m_pc' = "geonames_init"
    /\ UNCHANGED <<m_session, m_path, m_requests, m_checks>>
    /\ UNCHANGED <<normVars, httpVars, gndVars, enrichVars, wikiVars, geoVars, sharedVars>>

\* An exception leaves the first constructor: the with statement has entered
\* no context yet, so no __exit__ runs.
GndInitFails ==
    /\ m_pc \in {"gnd_init", "gnd_limiter"}
    /\ m_pc' = "left"
    /\ m_path' = "first_client"
    /\ UNCHANGED <<m_session, m_requests, m_checks>>
    /\ UNCHANGED <<normVars, httpVars, gndVars, enrichVars, wikiVars, geoVars, sharedVars>>

\* GeoNamesClient(username, "1000/hour"): up to the creation of the session.
GeonamesSetupSession ==
    /\ m_pc = "geonames_init"
    /\ SetupSession("geonames", "geonames_limiter")
    /\ UNCHANGED <<normVars, httpVars, gndVars, enrichVars, wikiVars, geoVars, sharedVars>>

\* Rest of the second constructor, then GeoNamesClient.__enter__.
GeonamesEnter ==
    /\ m_pc = "geonames_limiter"
    /\ m_pc' = "body"
    /\ UNCHANGED <<m_session, m_path, m_requests, m_checks>>
    /\ UNCHANGED <<normVars, httpVars, gndVars, enrichVars, wikiVars, geoVars, sharedVars>>

\* An exception leaves the second constructor: only the first client's
\* context has been entered, so only GndClient.__exit__ runs.
GeonamesInitFails ==
    /\ m_pc \in {"geonames_init", "geonames_limiter"}
    /\ m_pc' = "exit_gnd"
    /\ m_path' = "second_client"
    /\ UNCHANGED <<m_session, m_requests, m_checks>>
    /\ UNCHANGED <<normVars, httpVars, gndVars, enrichVars, wikiVars, geoVars, sharedVars>>

\* A fetch through HttpClient.fetch_page: the rate_limited wrapper calls
\* limiter.hit before the request is sent.
FetchPage(resolver) ==
    /\ m_requests[resolver] < MaxRequests
    /\ m_checks' = [m_checks EXCEPT ![resolver] = @ + 1]
    /\ m_requests' = [m_requests EXCEPT ![resolver] = @ + 1]

\* A fetch through pywikibot (ItemPage.get): no HttpClient is involved.
FetchItem(resolver) ==
    /\ m_requests[resolver] < MaxRequests
    /\ m_requests' = [m_requests EXCEPT ![resolver] = @ + 1]
    /\ UNCHANGED m_checks

\* GndClient._fetch_gnd_data during enrichment.
FetchGndData ==
    /\ m_pc = "body"
    /\ FetchPage("gnd")
    /\ UNCHANGED <<m_pc, m_session, m_path>>
    /\ UNCHANGED <<normVars, httpVars, gndVars, enrichVars, wikiVars, geoVars, sharedVars>>

\* WikidataClient._fetch_wikidata_item during enrichment.
FetchWikidataItem ==
    /\ m_pc = "body"
    /\ FetchItem("wikidata")
    /\ UNCHANGED <<m_pc, m_session, m_path>>
    /\ UNCHANGED <<normVars, httpVars, gndVars, enrichVars, wikiVars, geoVars, sharedVars>>

\* GeoNamesClient._fetch_geonames_page during enrichment.
FetchGeonamesPage ==
    /\ m_pc = "body"
    /\ FetchPage("geonames")
    /\ UNCHANGED <<m_pc, m_session, m_path>>
    /\ UNCHANGED <<normVars, httpVars, gndVars, enrichVars, wikiVars, geoVars, sharedVars>>

\* enrich_with_geolocation returns: the block is left normally.
EnrichReturns ==
    /\ m_pc = "body"
    /\ m_pc' = "exit_geonames"
    /\ m_path' = "normal"
    /\ UNCHANGED <<m_session, m_requests, m_checks>>
    /\ UNCHANGED <<normVars, httpVars, gndVars, enrichVars, wikiVars, geoVars, sharedVars>>

\* enrich_with_geolocation raises: the block is left by the exception.
EnrichRaises ==
    /\ m_pc = "body"
    /\ m_pc' = "exit_geonames"
    /\ \E exc \in EnrichExceptions : m_path' = exc
    /\ UNCHANGED <<m_session, m_requests, m_checks>>
    /\ UNCHANGED <<normVars, httpVars, gndVars, enrichVars, wikiVars, geoVars, sharedVars>>

\* GeoNamesClient.__exit__ (the inner context is left first).
GeonamesExit ==
    /\ m_pc = "exit_geonames"
    /\ m_session' = Close("geonames")
    /\ m_pc' = "exit_gnd"
    /\ UNCHANGED <<m_path, m_requests, m_checks>>
    /\ UNCHANGED <<normVars, httpVars, gndVars, enrichVars, wikiVars, geoVars, sharedVars>>

\* GndClient.__exit__; control then leaves the with statement.
GndExit ==
    /\ m_pc = "exit_gnd"
    /\ m_session' = Close("gnd")
    /\ m_pc' = "left"
    /\ UNCHANGED <<m_path, m_requests, m_checks>>
    /\ UNCHANGED <<normVars, httpVars, gndVars, enrichVars, wikiVars, geoVars, sharedVars>>

MainNext ==
    \/ GndSetupSession \/ GndEnter \/ GndInitFails
    \/ GeonamesSetupSession \/ GeonamesEnter \/ GeonamesInitFails
    \/ FetchGndData \/ FetchWikidataItem \/ FetchGeonamesPage
    \/ EnrichReturns \/ EnrichRaises
    \/ GeonamesExit \/ GndExit

(***************************************************************************)
(* SpecShared: two callers (threads) that share one HttpClient and call    *)
(* fetch_page concurrently.  The wrapper holds no lock, so the callers'    *)
(* steps interleave freely; limiter.hit itself is taken as one atomic      *)
(* step.  Every request is answered at its first attempt.                  *)
(***************************************************************************)
Callers == {1, 2}

MaxCallerCalls == 2

NoCaller == [pc |-> "idle", reset |-> 0, wake |-> 0, waited |-> FALSE, calls |-> 0]

SharedIdle ==
    /\ p_now = 0 /\ p_limit = [n |-> 0, w |-> 0]
    /\ p_events = <<>> /\ p_sent = <<>>
    /\ p_caller = [c \in Callers |-> [NoCaller EXCEPT !.pc = "off"]]

\* HttpClient.__init__, then the client is handed to both callers.
SharedStart ==
    /\ p_now = 0 /\ p_limit \in RateLimits
    /\ p_events = <<>> /\ p_sent = <<>>
    /\ p_caller = [c \in Callers |-> NoCaller]

\* An entry of the shared window is live at time t while atime >= t - expiry.
SharedInWindow(atime, t) == atime >= t - p_limit.w

\* MemoryStorage.acquire_entry on the shared window.
SharedHitRefused(t) ==
    /\ Len(p_events) >= p_limit.n
    /\ SharedInWindow(p_events[p_limit.n], t)

\* get_window_stats(...).reset_time on the shared window.
SharedResetTime(t) ==
    LET live == {i \in DOMAIN p_events : SharedInWindow(p_events[i], t)}
    IN  IF live = {} THEN t + p_limit.w
        ELSE LET oldest == CHOOSE i \in live : \A j \in live : j <= i
             IN  p_events[oldest] + p_limit.w

\* Time passes.
SharedTick ==
    /\ \E c \in Callers : p_caller[c].pc # "off"
    /\ p_now < MaxTime
    /\ p_now' = p_now + 1
    /\ UNCHANGED <<p_limit, p_events, p_sent, p_caller>>
    /\ UNCHANGED <<normVars, httpVars, gndVars, enrichVars, wikiVars, geoVars, mainVars>>

\* wrapper, line 34, run by caller c: self._limiter.hit(...)
CallerHit(c) ==
    /\ p_caller[c].pc = "idle"
    /\ p_caller[c].calls < MaxCallerCalls
    /\ IF SharedHitRefused(p_now)
       THEN /\ p_caller' = [p_caller EXCEPT ![c].pc = "stats",
                                            ![c].waited = FALSE,
                                            ![c].calls = @ + 1]
            /\ UNCHANGED p_events
       ELSE /\ p_caller' = [p_caller EXCEPT ![c].pc = "request",
                                            ![c].waited = FALSE,
                                            ![c].calls = @ + 1]
            /\ p_events' = <<p_now>> \o
                  SelectSeq(p_events, LAMBDA a : SharedInWindow(a, p_now))
    /\ UNCHANGED <<p_now, p_limit, p_sent>>
    /\ UNCHANGED <<normVars, httpVars, gndVars, enrichVars, wikiVars, geoVars, mainVars>>

\* wrapper, lines 35-37, run by caller c: get_window_stats(...).reset_time
CallerWindowStats(c) ==
    /\ p_caller[c].pc = "stats"
    /\ p_caller' = [p_caller EXCEPT ![c].pc = "sleep",
                                    ![c].reset = SharedResetTime(p_now)]
    /\ UNCHANGED <<p_now, p_limit, p_events, p_sent>>
    /\ UNCHANGED <<normVars, httpVars, gndVars, enrichVars, wikiVars, geoVars, mainVars>>

\* wrapper, lines 38-41, run by caller c: the wait is computed and the
\* caller goes to sleep; a negative wait makes time.sleep raise ValueError.
CallerSleep(c) ==
    /\ p_caller[c].pc = "sleep"
    /\ LET wait == p_caller[c].reset - p_now
       IN  IF wait < 0
           THEN p_caller' = [p_caller EXCEPT ![c].pc = "idle"]
           ELSE p_caller' = [p_caller EXCEPT ![c].pc = "sleeping",
                                             ![c].wake = p_now + wait,
                                             ![c].waited = TRUE]
    /\ UNCHANGED <<p_now, p_limit, p_events, p_sent>>
    /\ UNCHANGED <<normVars, httpVars, gndVars, enrichVars, wikiVars, geoVars, mainVars>>

\* time.sleep returns in caller c once the wait is over.
CallerWake(c) ==
    /\ p_caller[c].pc = "sleeping"
    /\ p_now >= p_caller[c].wake
    /\ p_caller' = [p_caller EXCEPT ![c].pc = "request"]
    /\ UNCHANGED <<p_now, p_limit, p_events, p_sent>>
    /\ UNCHANGED <<normVars, httpVars, gndVars, enrichVars, wikiVars, geoVars, mainVars>>

\* wrapper, line 43, run by caller c: fetch_page's body sends the request.
CallerRequest(c) ==
    /\ p_caller[c].pc = "request"
    /\ p_sent' = Append(SelectSeq(p_sent, LAMBDA s : s.at > p_now - p_limit.w),
                        [at |-> p_now, by |-> c, waited |-> p_caller[c].waited])
    /\ p_caller' = [p_caller EXCEPT ![c].pc = "idle"]
    /\ UNCHANGED <<p_now, p_limit, p_events>>
    /\ UNCHANGED <<normVars, httpVars, gndVars, enrichVars, wikiVars, geoVars, mainVars>>

SharedNext ==
    \/ SharedTick
    \/ \E c \in Callers :
          \/ CallerHit(c) \/ CallerWindowStats(c) \/ CallerSleep(c)
          \/ CallerWake(c) \/ CallerRequest(c)

(***************************************************************************)
(* Specifications                                                          *)
(***************************************************************************)
NormInit == NormStart /\ HttpIdle /\ GndIdle /\ EnrichIdle /\ WikidataIdle /\ GeonamesIdle /\ MainIdle /\ SharedIdle

SpecNorm == NormInit /\ [][NormNext]_vars

HttpInit == NormIdle /\ HttpStart /\ GndIdle /\ EnrichIdle /\ WikidataIdle /\ GeonamesIdle /\ MainIdle /\ SharedIdle

SpecHttp == HttpInit /\ [][HttpNext]_vars

GndInit == NormIdle /\ HttpIdle /\ GndStart /\ EnrichIdle /\ WikidataIdle /\ GeonamesIdle /\ MainIdle /\ SharedIdle

SpecGnd == GndInit /\ [][GndNext]_vars

EnrichInit == NormIdle /\ HttpIdle /\ GndIdle /\ EnrichStart /\ WikidataIdle /\ GeonamesIdle /\ MainIdle /\ SharedIdle

SpecEnrich == EnrichInit /\ [][EnrichNext]_vars

WikidataInit == NormIdle /\ HttpIdle /\ GndIdle /\ EnrichIdle /\ WikidataStart /\ GeonamesIdle /\ MainIdle /\ SharedIdle

SpecWikidata == WikidataInit /\ [][WikidataNext]_vars

GeonamesInit == NormIdle /\ HttpIdle /\ GndIdle /\ EnrichIdle /\ WikidataIdle /\ GeonamesStart /\ MainIdle /\ SharedIdle

SpecGeonames == GeonamesInit /\ [][GeonamesNext]_vars

MainInit == NormIdle /\ HttpIdle /\ GndIdle /\ EnrichIdle /\ WikidataIdle /\ GeonamesIdle /\ MainStart /\ SharedIdle

SpecMain == MainInit /\ [][MainNext]_vars

SharedInit == NormIdle /\ HttpIdle /\ GndIdle /\ EnrichIdle /\ WikidataIdle /\ GeonamesIdle /\ MainIdle /\ SharedStart

SpecShared == SharedInit /\ [][SharedNext]_vars

\* C8: normalization is idempotent: normalizing an already normalized string
\* returns it unchanged.
C8_NormalizeIdempotent == n_pc = "twice" => n_twice = n_once

\* A fetch_page call has returned or raised.
CallOver == h_pc = "idle" /\ h_call.result \notin {"none", "pending"}

\* C2: rate ceiling: no interval of one window length holds more than n HTTP
\* requests of the client (h_sent holds the requests of the last window
\* length), a request sent after a wait included.
C2_RateCeiling == Len(h_sent) <= h_limit.n

\* C3: fetch_page returns a response or None whatever the request's outcome
\* and the state of the window; no exception leaves the call.
C3_NeverRaises == CallOver => h_call.result \in {"response", "None"}

\* C4: retry budget: k retryable statuses followed by a success give the
\* success response when k is within the budget of 5, and None beyond it.
C4_RetryBudget ==
    \A k \in 0..MaxFail :
        (CallOver /\ h_call.script = Rep("status_retry", k) \o <<"ok">>)
            => h_call.result = (IF k <= RetryTotal THEN "response" ELSE "None")

\* C9: a call refused by the window waits for the time left until the oldest
\* request of the window expires, W - (now - oldest); the wait is never
\* negative and the request is sent after it.
C9_WaitDuration ==
    (~h_call.hit /\ h_pc \in {"request", "idle"})
        => /\ h_call.wait >= 0
           /\ h_call.wait = h_limit.w - (h_call.at - h_call.oldest)
           /\ (h_pc = "idle" => h_call.sent >= 1)

\* The item _validate_gnd_result was applied to.
ValItem == g_resp[g_val.title].member[g_val.no]

\* An item carries a cross-reference to the wikidata id wid.
HasSameAs(item, wid) ==
    \E k \in DOMAIN item.sameAs :
        item.sameAs[k].host = "wikidata.org" /\ item.sameAs[k].last = wid

\* C7: an item of a type that is not excluded and with a cross-reference (any
\* sameAs entry) to the record's work entity id is accepted on that ground,
\* without an author-variant lookup, and when it is the first item of the
\* first answer get_gnd_areacode returns its coded area.
C7_CrossReferenceAccepted ==
    /\ (/\ g_pc = "validated"
        /\ ValItem.type \cap ExcludedTypes = {}
        /\ NotNA(g_row["Work Wikidata ID"])
        /\ HasSameAs(ValItem, g_row["Work Wikidata ID"]))
          => (g_val.verdict = "accept" /\ g_val.by = "sameAs" /\ ~g_val.lookup)
    /\ (/\ g_pc = "returned"
        /\ g_resp[1].ok /\ g_resp[1].member # <<>>
        /\ g_resp[1].member[1].type \cap ExcludedTypes = {}
        /\ NotNA(g_row["Work Wikidata ID"])
        /\ HasSameAs(g_resp[1].member[1], g_row["Work Wikidata ID"]))
          => (/\ <<g_res.code, g_res.label>> = ExtractGeocode(g_resp[1].member[1])
              /\ g_res.reqs = <<"search">>)

\* The run is past the primary-title stage (line 41 has stored its results).
AfterPrimary == e_pc \in {"labels", "alias", "p495", "p19", "geonames", "done"}

\* The mapping stage has run (lines 86-103).
AfterMapping == e_pc \in {"geonames", "done"}

\* A lookup of the given kind was sent out for record r.
Logged(r, kind) ==
    \E k \in DOMAIN e_log : e_log[k].rec = r /\ e_log[k].kind = kind

\* Where the area code of a record is a key of the mapper and the mapping of
\* its P495 label is one too, the gazetteer id is the area code's entry (in
\* the end its numeric part).
IdFromAreacodeKept ==
    AfterMapping =>
        \A r \in Records :
            LET from_areacode == DictGet(e_geodict, e_df[r]["GND Areacode"])
                from_mapping == DictGet(e_geodict, e_df[r]["GND Mapping"])
            IN  (NotNA(from_areacode) /\ NotNA(from_mapping))
                    => e_df[r]["Geonames ID"] \in
                          {from_areacode, ExtractDigits(from_areacode)}

\* C1 as stated: first success wins: once the primary-title stage has stored
\* a non-absent area code for a record, no later step of the run (alias-title
\* stage, whitespace stripping, property stages, mapping stage) changes the
\* record's area code, area label or note; and a gazetteer id obtained from
\* the area code is not replaced by the one of the property-derived label.
C1_FirstSuccessWins ==
    /\ [][\A r \in Records :
            (AfterPrimary /\ NotNA(e_df[r]["GND Areacode"]))
                => /\ e_df'[r]["GND Areacode"] = e_df[r]["GND Areacode"]
                   /\ e_df'[r]["GND Arealabel"] = e_df[r]["GND Arealabel"]
                   /\ e_df'[r]["note"] = e_df[r]["note"]]_vars
    /\ []IdFromAreacodeKept

\* C1 amended: once a record has a non-absent area code after the
\* primary-title stage, later steps change the code at most by removing the
\* whitespace around it and leave area label and note alone; a gazetteer id,
\* once set, is only ever replaced by its own numeric part, and an id
\* obtained from the area code is not replaced by the one of the
\* property-derived label.
C1_FirstSuccessWinsUpToStrip ==
    /\ [][\A r \in Records :
            /\ (AfterPrimary /\ NotNA(e_df[r]["GND Areacode"]))
                => /\ StrStrip(e_df'[r]["GND Areacode"])
                        = StrStrip(e_df[r]["GND Areacode"])
                   /\ e_df'[r]["GND Areacode"] \in
                        {e_df[r]["GND Areacode"],
                         StrStrip(e_df[r]["GND Areacode"])}
                   /\ e_df'[r]["GND Arealabel"] = e_df[r]["GND Arealabel"]
                   /\ e_df'[r]["note"] = e_df[r]["note"]
            /\ (AfterPrimary /\ NotNA(e_df[r]["Geonames ID"]))
                => e_df'[r]["Geonames ID"] \in
                      {e_df[r]["Geonames ID"],
                       ExtractDigits(e_df[r]["Geonames ID"])}]_vars
    /\ []IdFromAreacodeKept

\* C1 witness: a finished run in which one record got a padded area code from
\* the primary-title stage (and was never looked up by alias titles), now
\* stripped, and another has the sentinel code, mapped by the mapper, next to
\* a P495 label mapped to a different gazetteer id.
C1_Witness ==
    /\ e_pc = "done"
    /\ \E r \in Records :
          /\ Logged(r, "gnd_primary") /\ ~Logged(r, "gnd_alias")
          /\ e_df[r]["GND Areacode"] = <<"X", "A">>
          /\ e_df[r]["GND Arealabel"] = <<"a">>
    /\ \E r \in Records :
          /\ e_df[r]["GND Areacode"] = SentinelZZ
          /\ SentinelZZ \in DOMAIN e_geodict
          /\ e_df[r]["GND Mapping"] \in DOMAIN e_geodict
          /\ e_geodict[e_df[r]["GND Mapping"]] # e_geodict[SentinelZZ]
          /\ e_df[r]["Geonames ID"] = ExtractDigits(e_geodict[SentinelZZ])

\* C5: the only failure that ends an enrichment run early is the
\* API-reported gazetteer error GeoNamesAPIError.
C5_OnlyGeoNamesErrorAborts == e_pc = "failed" => e_error = "GeoNamesAPIError"

\* C6: mapping order: after the mapping stage a record's gazetteer id is the
\* mapper's entry of its area code when the code is a key of the mapper, and
\* otherwise (code absent or unmapped) the mapper's entry, if any, of the
\* area code the label table gives for its P495 label; the finished table
\* holds the numeric part of that entry.
C6_MappingOrder ==
    AfterMapping =>
        \A r \in Records :
            LET areacode == e_df[r]["GND Areacode"]
                expected ==
                    IF areacode \in DOMAIN e_geodict THEN e_geodict[areacode]
                    ELSE DictGet(e_geodict,
                                 MatchArealabel(e_df[r]["P495"], ArealabelDict))
            IN  e_df[r]["Geonames ID"] =
                    (IF e_pc = "done"
                     THEN Updated(expected, ExtractDigits(expected))
                     ELSE expected)

\* C6 witness: a finished run with a record whose area code and P495-derived
\* code are both keys of the mapper with different entries, and a record
\* without an area code whose id comes from its P495 label.
C6_Witness ==
    /\ e_pc = "done"
    /\ \E r \in Records :
          /\ e_df[r]["GND Areacode"] \in DOMAIN e_geodict
          /\ e_df[r]["GND Mapping"] \in DOMAIN e_geodict
          /\ e_geodict[e_df[r]["GND Mapping"]]
                # e_geodict[e_df[r]["GND Areacode"]]
          /\ e_df[r]["Geonames ID"]
                = ExtractDigits(e_geodict[e_df[r]["GND Areacode"]])
    /\ \E r \in Records :
          /\ IsNA(e_df[r]["GND Areacode"])
          /\ e_df[r]["P495"] = <<"England">>
          /\ e_df[r]["Geonames ID"]
                = ExtractDigits(e_geodict[ArealabelDict[<<"England">>]])

\* C10: stage gating: a knowledge-base label lookup or an alias-title
\* authority lookup is sent only for a record whose area code is absent at
\* that moment, a property lookup only for one whose area code is absent or
\* the sentinel #ZZ, and a P19 lookup only when, besides, its P495 value is
\* absent; so no record with another area code causes a knowledge-base
\* request.
C10_StageGating ==
    \A k \in DOMAIN e_log :
        /\ e_log[k].kind \in {"kb_labels", "gnd_alias"} => IsNA(e_log[k].code)
        /\ e_log[k].kind \in {"kb_p495", "kb_p19"}
              => (IsNA(e_log[k].code) \/ e_log[k].code = SentinelZZ)
        /\ e_log[k].kind = "kb_p19" => IsNA(e_log[k].p495)

\* C10 witness: a finished run in which one record, resolved by the
\* primary-title stage, caused no knowledge-base or alias-title lookup, and
\* another went through all of them, the property lookups with the sentinel
\* as its area code.
C10_Witness ==
    /\ e_pc = "done"
    /\ \E r \in Records :
          /\ e_df[r]["GND Areacode"] = <<"X", "A">>
          /\ NotNA(e_df[r]["Work Wikidata ID"])
          /\ Logged(r, "gnd_primary")
          /\ \A k \in DOMAIN e_log :
                e_log[k].rec = r => e_log[k].kind \in {"gnd_primary", "geonames"}
    /\ \E r \in Records :
          /\ Logged(r, "kb_labels") /\ Logged(r, "gnd_alias")
          /\ Logged(r, "kb_p495") /\ Logged(r, "kb_p19")
          /\ e_df[r]["GND Areacode"] = SentinelZZ

\* C11: unknown-region scenario: in a finished run, a record whose area code
\* is the sentinel #ZZ and whose P495 value is a key of the label table had
\* its P495 looked up, and its gazetteer id is the one the mapper gives for
\* the area code of that label, whatever the mapper holds.
C11_UnknownRegion ==
    e_pc = "done" =>
        \A r \in Records :
            (/\ e_df[r]["GND Areacode"] = SentinelZZ
             /\ e_df[r]["P495"] \in DOMAIN ArealabelDict)
                => /\ Logged(r, "kb_p495")
                   /\ LET from_label ==
                              DictGet(e_geodict, ArealabelDict[e_df[r]["P495"]])
                      IN  e_df[r]["Geonames ID"] =
                              Updated(from_label, ExtractDigits(from_label))

\* C12: get_wikidata_property on an entity that was fetched: when the first
\* claim for the property has a known target with a label the result is that
\* label, whatever the later claims are; when there is no claim or the first
\* target is the unknown value the result is absent; and an unknown-value
\* target never makes the call raise.
C12_FirstClaimLabel ==
    (w_pc \in {"returned", "raised"} /\ NotNA(w_q) /\ ~w_item.raised)
        => /\ ~w_out.raised
           /\ (/\ w_item.claims # <<>>
               /\ w_item.claims[1].known
               /\ NotNA(w_item.claims[1].label))
                 => w_out.value = w_item.claims[1].label
           /\ (w_item.claims = <<>> \/ ~w_item.claims[1].known)
                 => IsNA(w_out.value)

\* C13: get_geonames_data makes exactly one fetch; when it returns, it
\* returns latitude and longitude together or the absent pair; it returns the
\* absent pair when the fetch failed or when a document without an error
\* message lacks the lat or the lng element; and it raises GeoNamesAPIError,
\* not returning, when the document's status element carries a message.
C13_GeonamesData ==
    c_pc \in {"returned", "raised"}
        => /\ c_fetches = 1
           /\ c_pc = "returned" =>
                \/ c_out.pair = AbsentPair
                \/ c_out.pair.both /\ c_out.pair.lat.ok /\ c_out.pair.lng.ok
           /\ ~c_resp.ok => (c_pc = "returned" /\ c_out.pair = AbsentPair)
           /\ (/\ c_resp.xml /\ c_resp.status # "message"
               /\ (~c_resp.lat.present \/ ~c_resp.lng.present))
                 => (c_pc = "returned" /\ c_out.pair = AbsentPair)
           /\ (c_resp.xml /\ c_resp.status = "message")
                 => (c_pc = "raised" /\ c_out.raised = "GeoNamesAPIError")

\* C13 witness: a call on a document with a latitude but no longitude has
\* returned the absent pair after its one fetch.
C13_Witness ==
    /\ c_pc = "returned" /\ c_fetches = 1
    /\ c_resp.xml /\ c_resp.lat.present /\ ParseFloat(c_resp.lat.text).ok
    /\ ~c_resp.lng.present
    /\ c_out.pair = AbsentPair

\* Record r has a work entity id, a primary and an alternate title, aliases
\* (and no German title) from the knowledge-base label lookup, and its
\* alias-title authority lookup returned a coded area.
AliasResolved(r) ==
    /\ NotNA(e_df[r]["Work Wikidata ID"])
    /\ NotNA(e_df[r]["Book Title"]) /\ NotNA(e_df[r]["Original/Alt Title"])
    /\ Logged(r, "gnd_primary") /\ Logged(r, "kb_labels")
    /\ e_df[r]["Aliases"].islist /\ IsNA(e_df[r]["German Title"])
    /\ \E k \in DOMAIN e_log :
          /\ e_log[k].rec = r /\ e_log[k].kind = "gnd_alias"
          /\ NotNA(e_log[k].returned)

\* The area code the alias-title authority lookup returned for record r.
AliasReturned(r) ==
    LET k == CHOOSE k \in DOMAIN e_log :
                e_log[k].rec = r /\ e_log[k].kind = "gnd_alias"
    IN  e_log[k].returned

\* The alias-title stage is over.
AfterAlias == e_pc \in {"p495", "p19", "geonames", "done"}

\* C14 as stated: alias scenario: a record whose primary and alternate
\* titles found nothing in the primary stage (no area code, the note
\* "No GND areacode"), whose work entity id is known and for which an alias
\* from the label lookup gives an accepted item with a coded area: when the
\* alias-title stage stores its results the note becomes absent, and from
\* then to the end of the run the record's area code is the one the
\* alias-title lookup returned and its note is absent.
C14_AliasScenario ==
    /\ [][\A r \in Records :
            (/\ e_pc = "alias" /\ e_pc' = "p495"
             /\ AliasResolved(r)
             /\ IsNA(e_df[r]["GND Areacode"])
             /\ e_df[r]["note"] = NoteNoAreacode)
                => /\ e_df'[r]["GND Areacode"] = AliasReturned(r)
                   /\ IsNA(e_df'[r]["note"])]_vars
    /\ [](AfterAlias =>
            \A r \in Records :
                AliasResolved(r)
                    => /\ e_df[r]["GND Areacode"] = AliasReturned(r)
                       /\ IsNA(e_df[r]["note"]))

\* C14 amended: the same, the record's area code being the one the
\* alias-title lookup returned with the whitespace around it removed.
C14_AliasScenarioUpToStrip ==
    /\ [][\A r \in Records :
            (/\ e_pc = "alias" /\ e_pc' = "p495"
             /\ AliasResolved(r)
             /\ IsNA(e_df[r]["GND Areacode"])
             /\ e_df[r]["note"] = NoteNoAreacode)
                => /\ e_df'[r]["GND Areacode"] = StrStrip(AliasReturned(r))
                   /\ IsNA(e_df'[r]["note"])]_vars
    /\ [](AfterAlias =>
            \A r \in Records :
                AliasResolved(r)
                    => /\ e_df[r]["GND Areacode"] = StrStrip(AliasReturned(r))
                       /\ IsNA(e_df[r]["note"]))

\* C14 witness: a finished run with such a record, whose alias-title lookup
\* returned a padded area code that the table holds stripped, without a note.
C14_Witness ==
    /\ e_pc = "done"
    /\ \E r \in Records :
          /\ AliasResolved(r)
          /\ AliasReturned(r) = <<" ", "X", "A">>
          /\ e_df[r]["GND Areacode"] = <<"X", "A">>
          /\ e_df[r]["GND Arealabel"] = <<"a">>
          /\ IsNA(e_df[r]["note"])

\* C15: in a finished run, any two records whose area codes (the same or
\* different ones) are mapped to the same gazetteer id have the same latitude
\* and the same longitude.
C15_SameIdSameCoordinates ==
    e_pc = "done" =>
        \A r1, r2 \in Records :
            (/\ e_df[r1]["GND Areacode"] \in DOMAIN e_geodict
             /\ e_df[r2]["GND Areacode"] \in DOMAIN e_geodict
             /\ e_geodict[e_df[r1]["GND Areacode"]]
                    = e_geodict[e_df[r2]["GND Areacode"]])
                => /\ e_df[r1]["Latitude"] = e_df[r2]["Latitude"]
                   /\ e_df[r1]["Longitude"] = e_df[r2]["Longitude"]

\* Control has left the scoped block of main() on one of the exit paths the
\* claim lists: normal completion, an exception raised inside enrichment, or
\* a failure while the second client was being constructed.
LeftOnListedPath ==
    /\ m_pc = "left"
    /\ m_path \in {"normal", "second_client"} \cup EnrichExceptions

\* C16: when control has left the scoped block on one of these paths, no
\* session created by a GndClient or a GeoNamesClient is still open.
C16_SessionsReleased ==
    LeftOnListedPath => \A c \in ScopedClients : m_session[c] # "open"

\* C18: every external request of a resolver has passed a rate-limit check
\* of the transport: no resolver has issued more requests than it has made
\* checks.
C18_RequestsRateChecked ==
    \A r \in Resolvers : m_requests[r] <= m_checks[r]

\* C17: with two callers sharing one HttpClient, no interval of one window
\* length holds more than n requests, whatever the interleaving of the
\* callers' steps (p_sent holds the requests of the last window length).
C17_SharedRateCeiling == Len(p_sent) <= p_limit.n

\* C19: records are processed one resolution chain at a time: in the order in
\* which the resolver requests are issued, no request for a later record
\* comes before a request for an earlier record.
C19_OneChainAtATime ==
    \A k1, k2 \in DOMAIN e_log :
        k1 < k2 => e_log[k1].rec <= e_log[k2].rec

\* The titles get_gnd_areacode searches for the row of the call.
GndTitles == ExtractTitles(g_row, PrimaryColumns)

\* Number of search fetches among the requests of the call.
Searches == Len(SelectSeq(g_res.reqs, LAMBDA q : q = "search"))

\* get_gnd_areacode returned (absent, absent, note).
ReturnedNoAreacode ==
    /\ ~g_res.raised
    /\ IsNA(g_res.code) /\ IsNA(g_res.label) /\ g_res.note = NoteNoAreacode

\* C20: when the search fetch for a title fails, get_gnd_areacode returns
\* (absent, absent, note) and has issued no search for a later title: a
\* failure at the first title leaves one search, a failure at the second
\* title after a first search without results leaves two.
C20_FetchFailureAborts ==
    g_pc = "returned" =>
        /\ (Len(GndTitles) >= 1 /\ ~g_resp[1].ok)
              => (ReturnedNoAreacode /\ g_res.reqs = <<"search">>)
        /\ (/\ Len(GndTitles) = 2
            /\ g_resp[1].ok /\ g_resp[1].totalItems = 0
            /\ ~g_resp[2].ok)
              => (ReturnedNoAreacode /\ g_res.reqs = <<"search", "search">>)

\* C20: a call with two titles whose first search fails although the search
\* for the second title would have given an area code.
C20_Witness ==
    /\ g_pc = "returned"
    /\ Len(GndTitles) = 2
    /\ ~g_resp[1].ok
    /\ NotNA(ScanTitles(GndTitles, 2, g_resp, g_row["Work Wikidata ID"],
                        g_row["Author"]).code)
    /\ ReturnedNoAreacode
    /\ Searches = 1

\* The item under validation carries a cross-reference equal to the record's
\* work entity id (what _validate_gnd_result compares in lines 99-104).
CrossReferenceMatches ==
    /\ NotNA(ExtractWikidataId(ValItem.sameAs))
    /\ NotNA(g_row["Work Wikidata ID"])
    /\ ExtractWikidataId(ValItem.sameAs) = g_row["Work Wikidata ID"]

\* The normalized query title is among the item's normalized titles.
TitleMatches ==
    NormalizeInput(GndTitles[g_val.title]) \in FetchTitleVariants(ValItem)

\* The first listed author of the item matches the record's author, by its
\* label or by the name variants fetched for its id.
FirstAuthorMatches ==
    /\ ValItem.firstAuthor.present
    /\ ValItem.firstAuthor.list # <<>>
    /\ LET first == ValItem.firstAuthor.list[1]
           author == NormalizeInput(g_row["Author"])
       IN  \/ NormalizeInput(first.label) = author
           \/ /\ NotNA(first.id)
              /\ author \in FetchAuthorVariants(first.entity)

\* C21: an item without a matching cross-reference is accepted only if the
\* query title is among its titles and its first listed author matches; in
\* every other case it is rejected.
C21_TitleAndAuthorRequired ==
    (g_pc = "validated" /\ ~CrossReferenceMatches) =>
        /\ g_val.verdict = "accept" => (TitleMatches /\ FirstAuthorMatches)
        /\ ~(TitleMatches /\ FirstAuthorMatches) => g_val.verdict = "reject"

\* The type tags the exclusion rule names.
NamedExclusions ==
    {"Person", "DifferentiatedPerson", "CorporateBody", "ConferenceOrEvent",
     "MusicalWork"}

\* C22: an item one of whose type tags is in the exclusion set is rejected,
\* whatever its cross-references, titles and first author, and
\* get_gnd_areacode never returns at such an item.
C22_TypeExclusionFirst ==
    /\ (g_pc = "validated" /\ ValItem.type \cap NamedExclusions # {})
          => g_val.verdict = "reject"
    /\ (g_pc = "returned" /\ g_res.title # 0)
          => g_resp[g_res.title].member[g_res.no].type \cap NamedExclusions = {}

\* C22: an item of an excluded type that carries the record's work entity id
\* as cross-reference, and whose title and first author match, was validated.
C22_Witness ==
    /\ g_pc = "validated"
    /\ ValItem.type \cap NamedExclusions # {}
    /\ CrossReferenceMatches
    /\ TitleMatches /\ FirstAuthorMatches
    /\ g_val.verdict = "reject"

\* The items get_gnd_areacode can come to: <<title, item>> positions in the
\* answers to the titles up to the first title whose search fetch fails.
TriedPositions ==
    {p \in (DOMAIN GndTitles) \X (1..MaxItems) :
        /\ \A j \in 1..p[1] : g_resp[j].ok
        /\ p[2] \in DOMAIN g_resp[p[1]].member}

\* The tried positions whose item passes disambiguation.
PassingPositions ==
    {p \in TriedPositions :
        ValidateGndResult(g_resp[p[1]].member[p[2]], g_row["Work Wikidata ID"],
                          NormalizeInput(GndTitles[p[1]]),
                          g_row["Author"]).verdict = "accept"}

\* Title order first, then response order.
Before(p, q) == p[1] < q[1] \/ (p[1] = q[1] /\ p[2] < q[2])

\* The first passing position.
FirstPassing == CHOOSE p \in PassingPositions :
                    \A q \in PassingPositions \ {p} : Before(p, q)

\* C23: get_gnd_areacode returns at the first item, in title order and then
\* response order, that passes disambiguation, with the first coded area of
\* that item when it has one.
C23_FirstMatch ==
    (g_pc = "returned" /\ PassingPositions # {}) =>
        LET item == g_resp[FirstPassing[1]].member[FirstPassing[2]]
        IN  /\ ~g_res.raised
            /\ g_res.title = FirstPassing[1] /\ g_res.no = FirstPassing[2]
            /\ item.geographicAreaCode # <<>> =>
                  /\ g_res.code = item.geographicAreaCode[1].id
                  /\ g_res.label = item.geographicAreaCode[1].label

C25_RetryWhateverUrl ==
    \A kind \in {"conn_err", "read_err", "status_retry"} :
        (CallOver /\ h_call.script = <<kind, "ok">> /\ h_call.sent >= 1)
            => (h_call.sent = 2 /\ h_call.result = "response")

\* C26: in a finished run, a record without usable area code (absent or the
\* sentinel) and without P495 value, whose P19 value is a key of the label
\* table with a mapped area code, has the gazetteer id mapped from that
\* label.
C26_BirthplaceMapped ==
    e_pc = "done" =>
        \A r \in Records :
            (/\ AreacodeMissingOrZZ(e_df[r])
             /\ IsNA(e_df[r]["P495"])
             /\ e_df[r]["P19"] \in DOMAIN ArealabelDict
             /\ ArealabelDict[e_df[r]["P19"]] \in DOMAIN e_geodict)
                => /\ NotNA(e_df[r]["Geonames ID"])
                   /\ e_df[r]["Geonames ID"]
                        = ExtractDigits(e_geodict[ArealabelDict[e_df[r]["P19"]]])

\* C27: in every result of get_gnd_areacode the note is absent exactly when
\* the area code is present, and with an absent area code the note is the
\* string "No GND areacode".
C27_NoteIffNoAreacode ==
    (g_pc = "returned" /\ ~g_res.raised) =>
        /\ IsNA(g_res.note) <=> NotNA(g_res.code)
        /\ IsNA(g_res.code) => g_res.note = NoteNoAreacode

\* C28: an item is accepted on the comparison of the first author's label
\* with the record's author only when both names exist: the first-author
\* entry has a label and the record's author is not absent.
C28_NoLabelNoAcceptance ==
    (g_pc = "validated" /\ g_val.verdict = "accept" /\ g_val.by = "label")
        => /\ NotNA(ValItem.firstAuthor.list[1].label)
           /\ NotNA(g_row["Author"])

\* Every record obtained an area code in the primary-title authority stage,
\* and that stage is over.
AllResolvedByPrimary ==
    /\ e_pc \notin {"off", "primary"}
    /\ \A r \in Records :
          \E k \in DOMAIN e_log :
             /\ e_log[k].rec = r /\ e_log[k].kind = "gnd_primary"
             /\ NotNA(e_log[k].returned)

\* C29: when every record obtains an area code in the primary-title stage,
\* the label stage and the alias-title stage are skipped without error: the
\* run does not fail with a ValueError, and fails only if the gazetteer
\* reports an error.
C29_EmptyRemainderCompletes ==
    AllResolvedByPrimary =>
        /\ e_error # "ValueError"
        /\ e_pc = "failed" => e_error = "GeoNamesAPIError"

\* C30: the rate-limit window gains entries only where a fetch_page call
\* starts, and one entry at most there: the attempts of a call, retries
\* included, add none.
C30_OneSlotPerCall ==
    [][h_events' # h_events =>
          (h_calls' = h_calls + 1 /\ Len(h_events') <= Len(h_events) + 1)]_vars

\* C30: a first call that needed retries is over: several requests were sent
\* and the window holds the one entry of the call.
C30_Witness ==
    /\ CallOver
    /\ h_calls = 1
    /\ h_call.sent >= 3
    /\ Len(h_events) = 1

====
